---- MODULE Spec2Model ----
(***************************************************************************)
(* StyloWorld editor (cicciocappa/worldeditor): the chunk height field,    *)
(* its brush, the terrain picker of the editor UI and the dirty-flag       *)
(* protocol between the chunk and the terrain renderer.                    *)
(*                                                                         *)
(* Numbers.  JavaScript numbers are modelled in exact arithmetic as        *)
(* extended rationals [n, d]: d > 0 is the fraction n/d in lowest terms,   *)
(* d = 0 is a non-finite value (n = 1: Infinity, n = -1: -Infinity,        *)
(* n = 0: NaN).  Rounding of IEEE doubles and of the Float32Array store is *)
(* not modelled.  The one irrational operation, Math.sqrt, is kept as a    *)
(* surd (the radicand) through the comparison and the division of          *)
(* applyBrush, and rounded only where it is subtracted from 1.0.           *)
(***************************************************************************)
EXTENDS Integers, Sequences, FiniteSets, TLC

VARIABLES
    chunk,      \* Chunk: [size, resolution, heights, objects, terrainDirty]
    mesh,       \* TerrainRenderer: the mesh last uploaded by generateMesh
    engine,     \* Engine: "constructed" | "initialized" | "running"
    last,       \* the last call made: [op, args, pre, ret]
    nops,       \* number of chunk mutations made so far
    gl,         \* WebGL context and canvas: [canvas, framebuffer, viewport, ...]
    loop,       \* render loop: [isRunning, pending]
    meshes,     \* ObjectRenderer.meshes: the object types with a loaded mesh
    editor      \* EditorUI, its tools and the mouse

vars == <<chunk, mesh, engine, last, nops, gl, loop, meshes, editor>>

----------------------------------------------------------------------------
(* Bounds of the model *)

\* chunk mutations explored per behaviour
MaxOps == 2

\* largest grid resolution explored (the engine's chunk has 65)
MaxResolution == 3

----------------------------------------------------------------------------
(* Extended rational arithmetic *)

Abs(i) == IF i < 0 THEN -i ELSE i

Sign(i) == IF i > 0 THEN 1 ELSE IF i < 0 THEN -1 ELSE 0

Max(a, b) == IF a >= b THEN a ELSE b

Min(a, b) == IF a <= b THEN a ELSE b

RECURSIVE GCD(_, _)
GCD(a, b) == IF b = 0 THEN a ELSE GCD(b, a % b)

Make(n, d) ==
    IF d = 0 THEN [n |-> Sign(n), d |-> 0]
    ELSE LET g == GCD(Abs(n), Abs(d))
         IN  [n |-> Sign(d) * (n \div g), d |-> Abs(d) \div g]

Num(i) == [n |-> i, d |-> 1]

NaN == [n |-> 0, d |-> 0]

IsNaN(a) == a.d = 0 /\ a.n = 0

IsFinite(a) == a.d # 0

\* finite fractions are added over the least common denominator
Add(a, b) ==
    IF a.d = 1 /\ b.d = 1 THEN [n |-> a.n + b.n, d |-> 1]
    ELSE IF a.d # 0 /\ b.d # 0
    THEN LET g == GCD(a.d, b.d)
         IN  Make(a.n * (b.d \div g) + b.n * (a.d \div g), (a.d \div g) * b.d)
    ELSE IF IsNaN(a) \/ IsNaN(b) THEN NaN
    ELSE IF a.d = 0 /\ b.d = 0 THEN (IF a.n = b.n THEN a ELSE NaN)
    ELSE IF a.d = 0 THEN a ELSE b

Neg(a) == [n |-> -a.n, d |-> a.d]

Sub(a, b) == Add(a, Neg(b))

\* finite fractions are cancelled crosswise before they are multiplied
Mul(a, b) ==
    IF a.d # 0 /\ b.d # 0
    THEN LET g == Max(1, GCD(Abs(a.n), b.d))
             h == Max(1, GCD(Abs(b.n), a.d))
         IN  [n |-> (a.n \div g) * (b.n \div h), d |-> (a.d \div h) * (b.d \div g)]
    ELSE Make(a.n * b.n, a.d * b.d)

\* a / b: x/0 is +-Infinity, 0/0 and Infinity/Infinity are NaN
Div(a, b) ==
    IF a.d # 0 /\ b.d # 0 /\ b.n # 0
    THEN Mul(a, [n |-> Sign(b.n) * b.d, d |-> Abs(b.n)])
    ELSE IF b.n < 0 THEN Make(-(a.n * b.d), -(a.d * b.n))
    ELSE Make(a.n * b.d, a.d * b.n)

\* a.n/a.d compared with b.n/b.d by its sign over a common denominator
Cmp(a, b) ==
    IF a.d = 0 /\ b.d = 0 THEN a.n - b.n
    ELSE LET g == Max(1, GCD(a.d, b.d))
         IN  a.n * (b.d \div g) - b.n * (a.d \div g)

\* a <= b; false when either is NaN
Leq(a, b) == ~IsNaN(a) /\ ~IsNaN(b) /\ Cmp(a, b) <= 0

\* a < b; false when either is NaN
Lt(a, b) == ~IsNaN(a) /\ ~IsNaN(b) /\ Cmp(a, b) < 0

\* Math.floor and Math.ceil of a finite number, as an integer
Floor(a) == a.n \div a.d

Ceil(a) == -((-a.n) \div a.d)

----------------------------------------------------------------------------
(* Math.sqrt: the result is kept as the surd sqrt(rad) *)

\* digits kept when a surd is rounded: multiples of 1/SqrtPrec
SqrtPrec == 16

\* bisection: lo * lo <= m < hi * hi
RECURSIVE ISqrtIn(_, _, _)
ISqrtIn(m, lo, hi) ==
    IF hi - lo <= 1 THEN lo
    ELSE LET mid == (lo + hi) \div 2
         IN  IF mid * mid <= m THEN ISqrtIn(m, mid, hi) ELSE ISqrtIn(m, lo, mid)

\* the integer square root, rounded down
ISqrt(m) == ISqrtIn(m, 0, Min(m, 46340) + 1)

Sqrt(a) == [rad |-> a]

\* dist <= r, for dist = sqrt(rad) >= 0
SurdLeq(s, r) == Leq(Num(0), r) /\ Leq(s.rad, Mul(r, r))

\* dist / r, for r >= 0
SurdDiv(s, r) == [rad |-> Div(s.rad, Mul(r, r))]

\* sqrt(n/d) = sqrt(n*d)/d, rounded down to a multiple of 1/(d*SqrtPrec);
\* exact when n/d is the square of a rational
RoundSqrt(a) ==
    IF a.d = 0 THEN a
    ELSE Make(ISqrt(a.n * a.d * SqrtPrec * SqrtPrec), a.d * SqrtPrec)

\* 1.0 - s
OneMinusSurd(s) == Sub(Num(1), RoundSqrt(s.rad))

----------------------------------------------------------------------------
(* Chunk *)

\* new Chunk(size, resolution): flat terrain, no objects, mesh to be built
NewChunk(size, resolution) ==
    [size         |-> size,
     resolution   |-> resolution,
     heights      |-> [i \in 1..(resolution * resolution) |-> Num(0)],
     objects      |-> <<>>,
     terrainDirty |-> TRUE]

\* mutant: the row-major index with x and z exchanged
getHeightTransposed(c, x, z) ==
    IF x < 0 \/ x >= c.resolution \/ z < 0 \/ z >= c.resolution
    THEN Num(0)
    ELSE c.heights[x * c.resolution + z + 1]

getHeight(c, x, z) ==
    IF x < 0 \/ x >= c.resolution \/ z < 0 \/ z >= c.resolution
    THEN Num(0)
    ELSE c.heights[z * c.resolution + x + 1]

\* mutant: the sample is written and the mesh is not marked for rebuilding
setHeightClean(c, x, z, height) ==
    IF x < 0 \/ x >= c.resolution \/ z < 0 \/ z >= c.resolution
    THEN c
    ELSE [c EXCEPT !.heights[z * c.resolution + x + 1] = height]

setHeight(c, x, z, height) ==
    IF x < 0 \/ x >= c.resolution \/ z < 0 \/ z >= c.resolution
    THEN c
    ELSE [c EXCEPT !.heights[z * c.resolution + x + 1] = height,
                   !.terrainDirty = TRUE]

\* world coordinate -> grid coordinate
toGrid(c, world) == Mul(Div(world, Num(c.size)), Num(c.resolution - 1))

\* the integer cell of a grid coordinate, clamped to a valid cell
clampCell(c, grid) == Max(0, Min(c.resolution - 2, Floor(grid)))

\* mutant: the two weights exchanged
lerpSwapped(a, b, f) == Add(Mul(a, f), Mul(b, Sub(Num(1), f)))

\* a * (1 - f) + b * f
lerp(a, b, f) == Add(Mul(a, Sub(Num(1), f)), Mul(b, f))

getHeightAt(c, worldX, worldZ) ==
    LET gridX == toGrid(c, worldX)
        gridZ == toGrid(c, worldZ)
        x     == clampCell(c, gridX)
        z     == clampCell(c, gridZ)
        fx    == Sub(gridX, Num(x))
        fz    == Sub(gridZ, Num(z))
        h00   == getHeight(c, x, z)
        h10   == getHeight(c, x + 1, z)
        h01   == getHeight(c, x, z + 1)
        h11   == getHeight(c, x + 1, z + 1)
        h0    == lerp(h00, h10, fx)
        h1    == lerp(h01, h11, fx)
    IN  lerp(h0, h1, fz)

\* the loop constants of applyBrush
brushFrame(c, worldX, worldZ, radius, strength, lower) ==
    LET centerGridX == toGrid(c, worldX)
        centerGridZ == toGrid(c, worldZ)
        gridRadius  == toGrid(c, radius)
    IN  [centerGridX |-> centerGridX,
         centerGridZ |-> centerGridZ,
         gridRadius  |-> gridRadius,
         minX |-> Max(0, Floor(Sub(centerGridX, gridRadius))),
         maxX |-> Min(c.resolution - 1, Ceil(Add(centerGridX, gridRadius))),
         minZ |-> Max(0, Floor(Sub(centerGridZ, gridRadius))),
         maxZ |-> Min(c.resolution - 1, Ceil(Add(centerGridZ, gridRadius))),
         strength |-> strength,
         lower    |-> lower]

\* distance of cell (x, z) from the brush centre, in grid space
brushDist(b, x, z) ==
    LET dx == Sub(Num(x), b.centerGridX)
        dz == Sub(Num(z), b.centerGridZ)
    IN  Sqrt(Add(Mul(dx, dx), Mul(dz, dz)))

\* mutant: the falloff grows with the distance
brushFalloffInverted(dist, gridRadius) == RoundSqrt(SurdDiv(dist, gridRadius).rad)

\* Falloff: 1 at center, 0 at edge
brushFalloff(dist, gridRadius) == OneMinusSurd(SurdDiv(dist, gridRadius))

\* mutant: lowering moves a sample by half of what raising moves it
brushDeltaLowerHalved(b, x, z) ==
    Mul(Mul(b.strength, brushFalloff(brushDist(b, x, z), b.gridRadius)),
        IF b.lower THEN Make(-1, 2) ELSE Num(1))

brushDelta(b, x, z) ==
    Mul(Mul(b.strength, brushFalloff(brushDist(b, x, z), b.gridRadius)),
        Num(IF b.lower THEN -1 ELSE 1))

\* mutant: every cell of the bounding rectangle is written
brushCellSquare(c, b, x, z) ==
    setHeight(c, x, z, Add(getHeight(c, x, z), brushDelta(b, x, z)))

\* the body of the two loops, for one cell
brushCell(c, b, x, z) ==
    IF SurdLeq(brushDist(b, x, z), b.gridRadius)
    THEN setHeight(c, x, z, Add(getHeight(c, x, z), brushDelta(b, x, z)))
    ELSE c

\* for (z = minZ; z <= maxZ; z++) for (x = minX; x <= maxX; x++): each cell
\* of the rectangle is visited once and the body touches that cell alone
brushLoop(c, b) ==
    [c EXCEPT !.heights = [i \in 1..Len(c.heights) |->
        LET x == (i - 1) % c.resolution
            z == (i - 1) \div c.resolution
        IN  IF b.minX <= x /\ x <= b.maxX /\ b.minZ <= z /\ z <= b.maxZ
            THEN brushCell(c, b, x, z).heights[i]
            ELSE c.heights[i]]]

applyBrush(c, worldX, worldZ, radius, strength, lower) ==
    LET b == brushFrame(c, worldX, worldZ, radius, strength, lower)
    IN  [brushLoop(c, b) EXCEPT !.terrainDirty = TRUE]

\* mutant: the height passed by the caller is stored as it is
addObjectGivenHeight(c, type, position, rotation, scale) ==
    [c EXCEPT !.objects = Append(@,
        [type     |-> type,
         position |-> position,
         rotation |-> rotation,
         scale    |-> scale])]

addObject(c, type, position, rotation, scale) ==
    LET terrainHeight == getHeightAt(c, position[1], position[3])
    IN  [c EXCEPT !.objects = Append(@,
            [type     |-> type,
             position |-> <<position[1], terrainHeight, position[3]>>,
             rotation |-> rotation,
             scale    |-> scale])]

toJSON(c) ==
    [version    |-> "1.0",
     size       |-> c.size,
     resolution |-> c.resolution,
     heights    |-> c.heights,
     objects    |-> c.objects]

\* new Float32Array(array): a number is kept, null becomes 0
toFloat32(v) == IF "null" \in DOMAIN v THEN Num(0) ELSE v

fromJSON(c, data) ==
    [size         |-> data.size,
     resolution   |-> data.resolution,
     heights      |-> [i \in 1..Len(data.heights) |-> toFloat32(data.heights[i])],
     objects      |-> data.objects,
     terrainDirty |-> TRUE]

reset(c) ==
    [c EXCEPT !.heights = [i \in 1..Len(c.heights) |-> Num(0)],
              !.objects = <<>>,
              !.terrainDirty = TRUE]

----------------------------------------------------------------------------
(* ChunkIO: JSON text *)

\* the decimal digits of r/d, 0 <= r < d, at most k of them
RECURSIVE fractionDigits(_, _, _)
fractionDigits(r, d, k) ==
    IF r = 0 \/ k = 0 THEN <<>>
    ELSE <<(r * 10) \div d>> \o fractionDigits((r * 10) % d, d, k - 1)

\* mutant: a number is written without its decimals
numberToTextShort(a) ==
    IF ~IsFinite(a) THEN [null |-> TRUE]
    ELSE [neg  |-> a.n < 0,
          int  |-> Abs(a.n) \div a.d,
          frac |-> <<>>]

\* JSON.stringify of a number: its decimal digits, and null for NaN and
\* +-Infinity
numberToText(a) ==
    IF ~IsFinite(a) THEN [null |-> TRUE]
    ELSE [neg  |-> a.n < 0,
          int  |-> Abs(a.n) \div a.d,
          frac |-> fractionDigits(Abs(a.n) % a.d, a.d, 17)]

\* 0.d1 d2 ... from digit i on, as a fraction
RECURSIVE fractionValue(_, _)
fractionValue(digits, i) ==
    IF i > Len(digits) THEN Num(0)
    ELSE Div(Add(Num(digits[i]), fractionValue(digits, i + 1)), Num(10))

\* JSON.parse of a number or of null
textToNumber(t) ==
    IF "null" \in DOMAIN t THEN [null |-> TRUE]
    ELSE LET v == Add(Num(t.int), fractionValue(t.frac, 1))
         IN  IF t.neg THEN Neg(v) ELSE v

\* JSON.stringify(data)
stringifyJSON(data) ==
    [version    |-> data.version,
     size       |-> numberToText(Num(data.size)),
     resolution |-> numberToText(Num(data.resolution)),
     heights    |-> [i \in 1..Len(data.heights) |-> numberToText(data.heights[i])],
     objects    |-> [j \in 1..Len(data.objects) |->
                        [type     |-> data.objects[j].type,
                         position |-> [k \in 1..3 |->
                                          numberToText(data.objects[j].position[k])],
                         rotation |-> numberToText(data.objects[j].rotation),
                         scale    |-> numberToText(data.objects[j].scale)]]]

\* JSON.parse(jsonString)
parseJSON(text) ==
    [version    |-> text.version,
     size       |-> textToNumber(text.size).n,
     resolution |-> textToNumber(text.resolution).n,
     heights    |-> [i \in 1..Len(text.heights) |-> textToNumber(text.heights[i])],
     objects    |-> [j \in 1..Len(text.objects) |->
                        [type     |-> text.objects[j].type,
                         position |-> [k \in 1..3 |->
                                          textToNumber(text.objects[j].position[k])],
                         rotation |-> textToNumber(text.objects[j].rotation),
                         scale    |-> textToNumber(text.objects[j].scale)]]]

----------------------------------------------------------------------------
(* TerrainRenderer *)

\* no mesh uploaded yet
NoMesh == [vertices |-> <<>>, normals |-> <<>>, indices |-> <<>>]

\* vertex (x, z) of the mesh: world position scaled by size/(resolution-1)
meshVertex(c, x, z) ==
    <<Mul(Div(Num(x), Num(c.resolution - 1)), Num(c.size)),
      c.heights[z * c.resolution + x + 1],
      Mul(Div(Num(z), Num(c.resolution - 1)), Num(c.size))>>

\* mutant: the second triangle of a quad wound the other way
quadIndicesMixed(c, x, z) ==
    LET topLeft     == z * c.resolution + x
        topRight    == topLeft + 1
        bottomLeft  == (z + 1) * c.resolution + x
        bottomRight == bottomLeft + 1
    IN  <<topLeft, bottomLeft, topRight, topRight, bottomRight, bottomLeft>>

\* the six indices of the quad (x, z): two triangles
quadIndices(c, x, z) ==
    LET topLeft     == z * c.resolution + x
        topRight    == topLeft + 1
        bottomLeft  == (z + 1) * c.resolution + x
        bottomRight == bottomLeft + 1
    IN  <<topLeft, bottomLeft, topRight, topRight, bottomLeft, bottomRight>>

vecSubtract(a, b) == <<Sub(a[1], b[1]), Sub(a[2], b[2]), Sub(a[3], b[3])>>

vecCross(a, b) ==
    <<Sub(Mul(a[2], b[3]), Mul(a[3], b[2])),
      Sub(Mul(a[3], b[1]), Mul(a[1], b[3])),
      Sub(Mul(a[1], b[2]), Mul(a[2], b[1]))>>

LCM(a, b) == (a \div GCD(a, b)) * b

\* a normalized vector is kept exactly, as the unit vector along an integer
\* direction without a common factor: (a, b, c) / |(a, b, c)|
Unit(a, b, c) == [unit |-> <<a, b, c>>]

\* a vector with a NaN component has length NaN and normalizes to NaN
NaNVector == [unit |-> <<>>]

\* vec3.normalize: v / |v|, and the zero vector for |v| = 0
vecNormalize(v) ==
    IF \E i \in 1..3 : ~IsFinite(v[i]) THEN NaNVector
    ELSE LET m  == LCM(LCM(v[1].d, v[2].d), v[3].d)
             a1 == v[1].n * (m \div v[1].d)
             a2 == v[2].n * (m \div v[2].d)
             a3 == v[3].n * (m \div v[3].d)
             g  == GCD(GCD(Abs(a1), Abs(a2)), Abs(a3))
         IN  IF g = 0 THEN Unit(0, 0, 0)
             ELSE Unit(a1 \div g, a2 \div g, a3 \div g)

\* the position read back from the vertex array for corner k (1..3) of
\* triangle t (from 0)
triangleVertex(vertices, indices, t, k) == vertices[indices[3 * t + k] + 1]

\* mutant: the cross product of the edges taken in the other order
faceNormalFlipped(vertices, indices, t) ==
    LET v0 == triangleVertex(vertices, indices, t, 1)
        v1 == triangleVertex(vertices, indices, t, 2)
        v2 == triangleVertex(vertices, indices, t, 3)
    IN  vecNormalize(vecCross(vecSubtract(v2, v0), vecSubtract(v1, v0)))

\* the normal of triangle t: normalize(cross(v1 - v0, v2 - v0))
faceNormal(vertices, indices, t) ==
    LET v0 == triangleVertex(vertices, indices, t, 1)
        v1 == triangleVertex(vertices, indices, t, 2)
        v2 == triangleVertex(vertices, indices, t, 3)
    IN  vecNormalize(vecCross(vecSubtract(v1, v0), vecSubtract(v2, v0)))

\* mutant: a vertex keeps the normal of the first triangle that touches it
assignNormalOnce(flatNormals, indices, t, n) ==
    [v \in DOMAIN flatNormals |->
        IF /\ flatNormals[v] = Unit(0, 0, 0)
           /\ \E k \in 1..3 : indices[3 * t + k] + 1 = v
        THEN n ELSE flatNormals[v]]

\* Assign same normal to all three vertices (flat shading)
assignNormal(flatNormals, indices, t, n) ==
    [flatNormals EXCEPT ![indices[3 * t + 1] + 1] = n,
                        ![indices[3 * t + 2] + 1] = n,
                        ![indices[3 * t + 3] + 1] = n]

\* the loop over the triangles t, t + 1, ... in index order
RECURSIVE flatNormalsLoop(_, _, _, _)
flatNormalsLoop(vertices, indices, t, flatNormals) ==
    IF 3 * t >= Len(indices) THEN flatNormals
    ELSE flatNormalsLoop(vertices, indices, t + 1,
             assignNormal(flatNormals, indices, t, faceNormal(vertices, indices, t)))

\* an element of a Uint16Array: the integer modulo 2^16
toUint16(i) == i % (2 ^ 16)

\* new Uint16Array(indices)
uploadIndices(indices) == [j \in 1..Len(indices) |-> toUint16(indices[j])]

generateMesh(c) ==
    LET res      == c.resolution
        q        == res - 1
        vertices == [i \in 1..(res * res) |->
                        meshVertex(c, (i - 1) % res, (i - 1) \div res)]
        indices  == [j \in 1..(6 * q * q) |->
                        quadIndices(c, ((j - 1) \div 6) % q,
                                       ((j - 1) \div 6) \div q)[((j - 1) % 6) + 1]]
    IN  [vertices |-> vertices,
         normals  |-> flatNormalsLoop(vertices, indices, 0,
                          [i \in 1..(res * res) |-> Unit(0, 0, 0)]),
         indices  |-> uploadIndices(indices)]

----------------------------------------------------------------------------
(* The normal computation in the range of a Float32Array.  vec3.fromValues
   and vec3.create give Float32Arrays, so every component vec3.subtract and
   vec3.cross write is stored as a 32-bit float.  A number beyond the
   integers of the model is kept as m * 2^e, with m an exact fraction and e
   either 0 or the exponent of the height field. *)

\* zero, the infinities and NaN carry no exponent
big(m, e) == [m |-> m, e |-> IF m.n = 0 \/ m.d = 0 THEN 0 ELSE e]

\* a finite 32-bit float is below 2^128 in magnitude
Float32Exponent == 128

\* |m * 2^e| >= 2^128, for the exponents 0 and 98..158
exceedsFloat32(a) ==
    /\ IsFinite(a.m)
    /\ a.e # 0
    /\ IF a.e >= Float32Exponent
       THEN Leq(Make(1, 2 ^ (a.e - Float32Exponent)), [a.m EXCEPT !.n = Abs(@)])
       ELSE Leq(Num(2 ^ (Float32Exponent - a.e)), [a.m EXCEPT !.n = Abs(@)])

\* the value read back from a Float32Array element after a has been stored:
\* beyond the float range it is Infinity with the sign of a
storeFloat32(a) ==
    IF exceedsFloat32(a) THEN big(Make(Sign(a.m.n), 0), 0) ELSE a

bigMul(a, b) == big(Mul(a.m, b.m), a.e + b.e)

\* a - b: operands of one exponent are subtracted exactly; next to an operand
\* 2^98 times larger the smaller one is below the last bit of the result
bigSub(a, b) ==
    IF a.e = b.e \/ ~IsFinite(a.m) \/ ~IsFinite(b.m) THEN big(Sub(a.m, b.m), a.e)
    ELSE IF b.m.n = 0 THEN a
    ELSE IF a.m.n = 0 \/ b.e > a.e THEN big(Neg(b.m), b.e)
    ELSE a

\* vec3.subtract(out, a, b)
f32Subtract(a, b) ==
    [i \in 1..3 |-> storeFloat32(bigSub(a[i], b[i]))]

\* vec3.cross(out, a, b)
f32Cross(a, b) ==
    <<storeFloat32(bigSub(bigMul(a[2], b[3]), bigMul(a[3], b[2]))),
      storeFloat32(bigSub(bigMul(a[3], b[1]), bigMul(a[1], b[3]))),
      storeFloat32(bigSub(bigMul(a[1], b[2]), bigMul(a[2], b[1])))>>

\* vec3.normalize(out, a): len = x*x + y*y + z*z; if (len > 0) len = 1 /
\* sqrt(len); out = a * len.  A NaN component makes len NaN, an infinite one
\* makes it Infinity and the factor 0, and Infinity * 0 is NaN.  The result
\* is "nan" if a component of out is not finite, "zero" for the zero vector
\* and "unit" for a vector of length 1.
f32Normalize(a) ==
    IF \E i \in 1..3 : ~IsFinite(a[i].m) THEN "nan"
    ELSE IF \A i \in 1..3 : a[i].m.n = 0 THEN "zero"
    ELSE "unit"

\* the vertex array of a chunk whose samples are heights[i] * 2^e
f32Vertices(c, e) ==
    [i \in 1..(c.resolution * c.resolution) |->
        LET v == meshVertex(c, (i - 1) % c.resolution, (i - 1) \div c.resolution)
        IN  <<big(v[1], 0), big(v[2], e), big(v[3], 0)>>]

\* normalize(cross(v1 - v0, v2 - v0)) of triangle t, as faceNormal
f32FaceNormal(vertices, indices, t) ==
    LET v0 == triangleVertex(vertices, indices, t, 1)
        v1 == triangleVertex(vertices, indices, t, 2)
        v2 == triangleVertex(vertices, indices, t, 3)
    IN  f32Normalize(f32Cross(f32Subtract(v1, v0), f32Subtract(v2, v0)))

\* the normals generateMesh computes, one per triangle in index order
f32FaceNormals(c, e) ==
    LET indices == generateMesh(c).indices
    IN  [t \in 1..(Len(indices) \div 3) |->
            f32FaceNormal(f32Vertices(c, e), indices, t - 1)]

----------------------------------------------------------------------------
(* Engine *)

\* new Chunk(64, 65): the size of the engine's chunk
EngineSize == 64

\* e^(-t) for t >= 0, as 1/(1 + t + t^2/2) = 2/(2 + 2t + t^2), with t and the
\* result rounded down to multiples of 1/SqrtPrec
ExpNeg(t) ==
    LET P  == SqrtPrec
        tq == Floor(Mul(t, Num(P)))
    IN  Make((2 * P * P * P) \div (2 * P * P + 2 * P * tq + tq * tq), P)

\* the height createInitialTerrain gives cell (x, z): a hill in the centre
hillHeight(c, x, z) ==
    LET centerX == Div(Num(c.size), Num(2))
        centerZ == Div(Num(c.size), Num(2))
        worldX  == Mul(Div(Num(x), Num(c.resolution - 1)), Num(c.size))
        worldZ  == Mul(Div(Num(z), Num(c.resolution - 1)), Num(c.size))
        dx      == Sub(worldX, centerX)
        dz      == Sub(worldZ, centerZ)
        dist    == RoundSqrt(Add(Mul(dx, dx), Mul(dz, dz)))
        height  == Mul(Num(3), ExpNeg(Div(dist, Num(15))))
    IN  IF Leq(Num(0), height) THEN height ELSE Num(0)

\* for z, for x: setHeight(x, z, height) on every cell
createInitialTerrain(c) ==
    [c EXCEPT !.heights = [i \in 1..Len(c.heights) |->
                  setHeight(c, (i - 1) % c.resolution, (i - 1) \div c.resolution,
                            hillHeight(c, (i - 1) % c.resolution,
                                          (i - 1) \div c.resolution)).heights[i]],
              !.terrainDirty = TRUE]

\* mutant: the flag is left set after the mesh has been regenerated
updateChunkKeepsDirty(c) == c

\* Engine.update: regenerate the terrain mesh if dirty
updateMesh(c, m) == IF c.terrainDirty THEN generateMesh(c) ELSE m

updateChunk(c) == IF c.terrainDirty THEN [c EXCEPT !.terrainDirty = FALSE] ELSE c

\* the calls Engine.update makes, in order
updateSteps(c) == IF c.terrainDirty THEN <<"generateMesh">> ELSE <<>>

\* this.ui of the engine: null from the constructor, and setUI is never called
engineUi == [null |-> TRUE]

\* Engine.renderShadowMap: the depth pass, one draw per object of the chunk
renderShadowMap(c) ==
    <<"beginShadowPass", "shadowTerrain">>
        \o [i \in 1..Len(c.objects) |-> "shadowObject"]
        \o <<"endShadowPass">>

\* the preview draw of Engine.renderScene
previewSteps(ui) ==
    IF ui.null THEN <<>>
    ELSE IF ui.previewObject.null THEN <<>> ELSE <<"renderPreview">>

\* mutant: the colour pass drawn before the depth pass
renderSceneColourFirst(c, ui) ==
    <<"updateLightSpaceMatrix", "bindShadowMap", "clear", "grid", "terrain">>
        \o [i \in 1..Len(c.objects) |-> "object"]
        \o previewSteps(ui)
        \o renderShadowMap(c)

\* Engine.renderScene: the calls of one frame after update, in order
renderScene(c, ui) ==
    <<"updateLightSpaceMatrix">>
        \o renderShadowMap(c)
        \o <<"bindShadowMap", "clear", "grid", "terrain">>
        \o [i \in 1..Len(c.objects) |-> "object"]
        \o previewSteps(ui)

\* Engine.render: update, then renderScene (update has cleared the flag,
\* which renderScene does not read)
renderSteps(c, ui) == updateSteps(c) \o renderScene(updateChunk(c), ui)

----------------------------------------------------------------------------
(* Camera and EditorUI: picking *)

Null == [null |-> TRUE, p |-> <<>>]

Point(p) == [null |-> FALSE, p |-> p]

\* const maxDistance = 200
maxDistance == 200

\* const step = 0.5
step == Make(1, 2)

\* world coordinates are centred on the chunk: chunk = world + 32
chunkOffset == 32

\* Math.abs(direction[1]) < 0.0001
parallelEps == Make(1, 10000)

AbsNum(a) == [n |-> Abs(a.n), d |-> a.d]

\* mutant: no test for a ray parallel to the plane
rayPlaneUnguarded(ray, planeY) ==
    LET t == Div(Sub(planeY, ray.origin[2]), ray.direction[2])
    IN  IF Lt(t, Num(0)) THEN Null
        ELSE Point(<<Add(ray.origin[1], Mul(ray.direction[1], t)),
                     planeY,
                     Add(ray.origin[3], Mul(ray.direction[3], t))>>)

\* mutant: an intersection behind the origin is returned
rayPlaneBehind(ray, planeY) ==
    IF Lt(AbsNum(ray.direction[2]), parallelEps) THEN Null
    ELSE LET t == Div(Sub(planeY, ray.origin[2]), ray.direction[2])
         IN  Point(<<Add(ray.origin[1], Mul(ray.direction[1], t)),
                     planeY,
                     Add(ray.origin[3], Mul(ray.direction[3], t))>>)

rayPlaneIntersection(ray, planeY) ==
    IF Lt(AbsNum(ray.direction[2]), parallelEps) THEN Null
    ELSE LET t == Div(Sub(planeY, ray.origin[2]), ray.direction[2])
         IN  IF Lt(t, Num(0)) THEN Null
             ELSE Point(<<Add(ray.origin[1], Mul(ray.direction[1], t)),
                          planeY,
                          Add(ray.origin[3], Mul(ray.direction[3], t))>>)

\* mutant: the vertical direction component used for the x coordinate
rayPointTypo(ray, t) ==
    <<Add(ray.origin[1], Mul(ray.direction[2], t)),
      Add(ray.origin[2], Mul(ray.direction[2], t)),
      Add(ray.origin[3], Mul(ray.direction[3], t))>>

\* the point of the ray at parameter t
rayPoint(ray, t) ==
    <<Add(ray.origin[1], Mul(ray.direction[1], t)),
      Add(ray.origin[2], Mul(ray.direction[2], t)),
      Add(ray.origin[3], Mul(ray.direction[3], t))>>

\* Check if within chunk bounds
inChunkBounds(c, chunkX, chunkZ) ==
    /\ Leq(Num(0), chunkX)
    /\ Leq(chunkX, Num(c.size))
    /\ Leq(Num(0), chunkZ)
    /\ Leq(chunkZ, Num(c.size))

\* mutant: a strict comparison
rayHitsTerrainStrict(y, terrainHeight) == Lt(y, terrainHeight)

\* Check if ray intersects terrain
rayHitsTerrain(y, terrainHeight) == Leq(y, terrainHeight)

\* Fallback to Y=0 plane intersection, converted to chunk coordinates
pickFallback(ray) ==
    LET worldIntersection == rayPlaneIntersection(ray, Num(0))
    IN  IF worldIntersection.null THEN Null
        ELSE Point(<<Add(worldIntersection.p[1], Num(chunkOffset)),
                     worldIntersection.p[2],
                     Add(worldIntersection.p[3], Num(chunkOffset))>>)

\* the loop runs for t = 0, step, 2 * step, ... while t < maxDistance
stepCount == Ceil(Div(Num(maxDistance), step))

\* the body of the loop at t = k * step: the point returned, or Null to go on
marchStep(c, ray, k) ==
    LET worldPoint == rayPoint(ray, Mul(Num(k), step))
        chunkX     == Add(worldPoint[1], Num(chunkOffset))
        chunkZ     == Add(worldPoint[3], Num(chunkOffset))
    IN  IF /\ inChunkBounds(c, chunkX, chunkZ)
           /\ rayHitsTerrain(worldPoint[2], getHeightAt(c, chunkX, chunkZ))
        THEN Point(<<chunkX, getHeightAt(c, chunkX, chunkZ), chunkZ>>)
        ELSE Null

\* steps lo .. hi-1 in order: the first point returned, or Null
RECURSIVE marchRange(_, _, _, _)
marchRange(c, ray, lo, hi) ==
    IF hi <= lo THEN Null
    ELSE IF hi = lo + 1 THEN marchStep(c, ray, lo)
    ELSE LET mid   == (lo + hi) \div 2
             first == marchRange(c, ray, lo, mid)
         IN  IF first.null THEN marchRange(c, ray, mid, hi) ELSE first

\* EditorUI.findTerrainIntersection (the current class)
findTerrainIntersection(c, ray) ==
    LET hit == marchRange(c, ray, 0, stepCount)
    IN  IF hit.null THEN pickFallback(ray) ELSE hit

\* the body of the loop in the earlier EditorUI class: the ray is marched in
\* the chunk's own coordinates
marchStepV1(c, ray, k) ==
    LET point == rayPoint(ray, Mul(Num(k), step))
    IN  IF /\ inChunkBounds(c, point[1], point[3])
           /\ rayHitsTerrain(point[2], getHeightAt(c, point[1], point[3]))
        THEN Point(<<point[1], getHeightAt(c, point[1], point[3]), point[3]>>)
        ELSE Null

RECURSIVE marchRangeV1(_, _, _, _)
marchRangeV1(c, ray, lo, hi) ==
    IF hi <= lo THEN Null
    ELSE IF hi = lo + 1 THEN marchStepV1(c, ray, lo)
    ELSE LET mid   == (lo + hi) \div 2
             first == marchRangeV1(c, ray, lo, mid)
         IN  IF first.null THEN marchRangeV1(c, ray, mid, hi) ELSE first

\* EditorUI.findTerrainIntersection (the earlier class)
findTerrainIntersectionV1(c, ray) ==
    LET hit == marchRangeV1(c, ray, 0, stepCount)
    IN  IF hit.null THEN rayPlaneIntersection(ray, Num(0)) ELSE hit

----------------------------------------------------------------------------
(* Inputs *)

Sizes == {32, 64}

Resolutions == 2..MaxResolution

\* sample height fields: 0 is flat, 1 is uneven about zero, 2 is a high slope
Patterns == {0, 1, 2}

sampleHeight(k, i) ==
    IF k = 0 THEN Num(0)
    ELSE IF k = 1 THEN Make(((i * i + 1) % 7) - 3, 2)
    ELSE Num(14 - i)

sampleField(size, resolution, k) ==
    LET c == [NewChunk(size, resolution) EXCEPT
                 !.heights = [i \in 1..(resolution * resolution) |-> sampleHeight(k, i)]]
    IN  IF k = 0 THEN c
        ELSE addObject(c, "rock", <<Num(8 * k), Num(0), Num(8)>>, Num(0), Num(1))

\* chunks that satisfy the data model: finite samples, resolution^2 of them
Fields ==
    {sampleField(s, r, k) : s \in Sizes, r \in Resolutions, k \in Patterns}

\* chunk files written by ChunkIO.saveChunk / quickSave
SavedChunks ==
    {parseJSON(stringifyJSON(toJSON(sampleField(s, r, 1)))) : s \in Sizes, r \in Resolutions}

BrushCentres == {<<32, 32>>, <<40, 24>>}

BrushRadii == {-8, 0, 32, 48}

\* <<strength, lower>>
BrushModes == {<<Num(1), FALSE>>, <<Make(1, 2), TRUE>>}

SetValues == {Num(2), Make(-3, 2)}

SetCells(c) ==
    {<<-1, 0>>, <<0, 0>>, <<c.resolution - 1, c.resolution - 1>>, <<0, c.resolution>>}

ObjectPositions == {<<Num(24), Num(5), Num(40)>>}

Call(op, args, pre, ret) == [op |-> op, args |-> args, pre |-> pre, ret |-> ret]

----------------------------------------------------------------------------
(* Engine: the canvas, the WebGL state and the render loop *)

\* window.innerWidth x window.innerHeight
WindowSizes == {<<800, 600>>, <<1024, 768>>}

InitialWindow == <<800, 600>>

\* Engine.constructor: setupCanvas sizes the canvas and the viewport,
\* setupWebGL enables the depth test and back-face culling; the other fields
\* are the defaults of a new context
NewGL(window) ==
    [canvas      |-> window,
     framebuffer |-> "default",
     viewport    |-> window,
     colorMask   |-> TRUE,
     depthTest   |-> TRUE,
     cullEnabled |-> TRUE,
     cullFace    |-> "BACK"]

\* the resize listener of setupCanvas
resize(g, window) == [g EXCEPT !.canvas = window, !.viewport = window]

\* this.isRunning = false, and no frame requested
NewLoop == [isRunning |-> FALSE, pending |-> 0]

\* Engine.requestFrame
requestFrame(l) == IF l.isRunning THEN [l EXCEPT !.pending = @ + 1] ELSE l

\* Engine.start
start(l) == requestFrame([l EXCEPT !.isRunning = TRUE])

\* Engine.stop
stop(l) == [l EXCEPT !.isRunning = FALSE]

\* the browser runs one requested callback: Engine.render, which ends with
\* requestFrame
frameCallback(l) == requestFrame([l EXCEPT !.pending = @ - 1])

\* this.shadowMapSize = 2048
shadowMapSize == 2048

\* ShadowRenderer.beginShadowPass
beginShadowPass(g) ==
    [g EXCEPT !.framebuffer = "shadow",
              !.viewport    = <<shadowMapSize, shadowMapSize>>,
              !.depthTest   = TRUE,
              !.colorMask   = FALSE,
              !.cullEnabled = TRUE,
              !.cullFace    = "FRONT"]

\* mutant: the colour writes are left disabled after the depth pass
endShadowPassMasked(g) ==
    [g EXCEPT !.framebuffer = "default",
              !.viewport    = g.canvas,
              !.cullFace    = "BACK"]

\* ShadowRenderer.endShadowPass(canvas)
endShadowPass(g) ==
    [g EXCEPT !.framebuffer = "default",
              !.viewport    = g.canvas,
              !.colorMask   = TRUE,
              !.cullFace    = "BACK"]

\* a model matrix, kept as the transformations applied to the identity
mat4Create == <<>>

mat4Translate(m, v) == Append(m, [op |-> "translate", by |-> v])

mat4RotateY(m, rad) == Append(m, [op |-> "rotateY", by |-> rad])

mat4Scale(m, v) == Append(m, [op |-> "scale", by |-> v])

\* the terrain's model matrix in the depth pass
shadowTerrainMatrix == mat4Translate(mat4Create, <<Num(-32), Num(0), Num(-32)>>)

\* the terrain's model matrix in the colour pass
terrainMatrix == mat4Translate(mat4Create, <<Num(-32), Num(0), Num(-32)>>)

\* mutant: the object's model matrix in the depth pass, left in chunk coordinates
shadowObjectMatrixUncentred(obj) ==
    mat4Scale(mat4RotateY(mat4Translate(mat4Create, obj.position), obj.rotation),
              <<obj.scale, obj.scale, obj.scale>>)

\* an object's model matrix in the depth pass
shadowObjectMatrix(obj) ==
    LET worldPos == <<Sub(obj.position[1], Num(32)), obj.position[2],
                      Sub(obj.position[3], Num(32))>>
    IN  mat4Scale(mat4RotateY(mat4Translate(mat4Create, worldPos), obj.rotation),
                  <<obj.scale, obj.scale, obj.scale>>)

\* an object's model matrix in the colour pass
objectMatrix(obj) ==
    LET worldPos == <<Sub(obj.position[1], Num(32)), obj.position[2],
                      Sub(obj.position[3], Num(32))>>
    IN  mat4Scale(mat4RotateY(mat4Translate(mat4Create, worldPos), obj.rotation),
                  <<obj.scale, obj.scale, obj.scale>>)

\* the grid's model matrix: the grid at its height
gridMatrix == mat4Translate(mat4Create, <<Num(0), Num(0), Num(0)>>)

\* a draw call: what is drawn (the terrain, or object number obj of the
\* chunk), with which model matrix, and the WebGL state it is drawn in
Draw(pass, g, obj, model) == [pass |-> pass, gl |-> g, obj |-> obj, model |-> model]

\* the objects of the chunk whose type has a mesh, by number
withMesh(c, ms) ==
    SelectSeq([i \in 1..Len(c.objects) |-> i], LAMBDA i : c.objects[i].type \in ms)

\* Engine.renderTerrainForShadowMap and renderObjectsForShadowMap
shadowDraws(c, ms, g) ==
    <<Draw("depth", g, 0, shadowTerrainMatrix)>>
        \o [k \in 1..Len(withMesh(c, ms)) |->
               Draw("depth", g, withMesh(c, ms)[k],
                    shadowObjectMatrix(c.objects[withMesh(c, ms)[k]]))]

\* GridRenderer.render, TerrainRenderer.render and ObjectRenderer.render
colourDraws(c, m, ms, g) ==
    <<Draw("grid", g, 0, gridMatrix)>>
        \o (IF Len(m.indices) = 0 THEN <<>> ELSE <<Draw("colour", g, 0, terrainMatrix)>>)
        \o [k \in 1..Len(withMesh(c, ms)) |->
               Draw("colour", g, withMesh(c, ms)[k],
                    objectMatrix(c.objects[withMesh(c, ms)[k]]))]

\* the draw calls of Engine.renderScene, in order: the depth pass between
\* beginShadowPass and endShadowPass, then the colour pass
sceneDraws(c, m, ms, g) ==
    LET depth  == beginShadowPass(g)
        colour == endShadowPass(depth)
    IN  shadowDraws(c, ms, depth) \o colourDraws(c, m, ms, colour)

\* the WebGL state Engine.renderScene leaves
sceneGL(g) == endShadowPass(beginShadowPass(g))

\* the types ObjectRenderer.init loads a mesh for
ObjectTypes == {"tree_pine", "rock_large", "bush_small"}

----------------------------------------------------------------------------
(* EditorUI and the tools.  The mouse position is kept as the ray that
   camera.screenToRay gives for it. *)

\* event.button: left and right; the middle button (1) is handled as the
\* right one is
Buttons == {0, 2}

\* a ray down onto the corner (0, 0) of the chunk and one down onto the
\* ground beside the chunk
PointerRays ==
    {[origin |-> <<Num(-32), Num(10), Num(-32)>>, direction |-> <<Num(0), Num(-1), Num(0)>>],
     [origin |-> <<Num(-40), Num(4), Num(0)>>, direction |-> <<Num(0), Num(-1), Num(0)>>]}

\* TerrainBrush.constructor
NewTerrainBrush ==
    [radius |-> Num(5), strength |-> Make(1, 2), isActive |-> FALSE, lowerMode |-> FALSE]

\* PlacementTool.constructor
NewPlacementTool == [selectedType |-> "tree_pine", randomRotation |-> TRUE]

startPaint(b, lower) == [b EXCEPT !.isActive = TRUE, !.lowerMode = lower]

stopPaint(b) == [b EXCEPT !.isActive = FALSE]

\* TerrainBrush.apply: the chunk after the call
brushApply(b, c, worldX, worldZ, deltaTime) ==
    IF ~b.isActive THEN c
    ELSE LET timeAdjustedStrength == Mul(Mul(b.strength, deltaTime), Num(10))
         IN  applyBrush(c, worldX, worldZ, b.radius, timeAdjustedStrength, b.lowerMode)

\* mutant: the object is added wherever the position is
placeObjectUnchecked(c, tool, worldX, worldZ, rotation, scale) ==
    [placed |-> "true",
     chunk  |-> addObject(c, tool.selectedType, <<worldX, Num(0), worldZ>>,
                          rotation, scale)]

\* PlacementTool.placeObject: the value returned and the chunk after the
\* call; rotation and scale are the values drawn from Math.random
placeObject(c, tool, worldX, worldZ, rotation, scale) ==
    IF \/ Lt(worldX, Num(0)) \/ Lt(Num(c.size), worldX)
       \/ Lt(worldZ, Num(0)) \/ Lt(Num(c.size), worldZ)
    THEN [placed |-> "false", chunk |-> c]
    ELSE [placed |-> "true",
          chunk  |-> addObject(c, tool.selectedType, <<worldX, Num(0), worldZ>>,
                               rotation, scale)]

NoPreview == [null |-> TRUE]

\* EditorUI.createPreviewObject
createPreviewObject ==
    [null |-> FALSE, position |-> <<Num(0), Num(0), Num(0)>>, visible |-> FALSE]

\* EditorUI.constructor and the tools the engine's constructor creates; held
\* and paintPress describe the mouse itself: the buttons that are down, and
\* whether the left one went down in brush mode and is still down
NewEditorUI ==
    [mode          |-> "brush",
     mouseDown     |-> FALSE,
     mouseButton   |-> -1,
     pointer       |-> [origin    |-> <<Num(-40), Num(4), Num(0)>>,
                        direction |-> <<Num(0), Num(-1), Num(0)>>],
     previewObject |-> NoPreview,
     terrainBrush  |-> NewTerrainBrush,
     placementTool |-> NewPlacementTool,
     held          |-> {},
     paintPress    |-> FALSE]

\* EditorUI.setMode
setMode(ui, mode) ==
    [ui EXCEPT !.mode = mode,
               !.previewObject = IF mode = "place" THEN createPreviewObject
                                 ELSE NoPreview]

\* EditorUI.updatePreviewPosition
updatePreviewPosition(ui, c) ==
    LET intersection == findTerrainIntersection(c, ui.pointer)
    IN  [ui EXCEPT !.previewObject =
            IF intersection.null THEN [@ EXCEPT !.visible = FALSE]
            ELSE [@ EXCEPT !.position = intersection.p, !.visible = TRUE]]

\* EditorUI.onMouseMove
onMouseMove(ui, c, ray) ==
    LET moved == [ui EXCEPT !.pointer = ray]
    IN  IF moved.mode = "place" /\ ~moved.previewObject.null
        THEN updatePreviewPosition(moved, c)
        ELSE moved

\* EditorUI.placeObjectAtMouse
placeObjectAtMouse(ui, c, rotation, scale) ==
    IF ~ui.previewObject.null /\ ui.previewObject.visible
    THEN placeObject(c, ui.placementTool, ui.previewObject.position[1],
                     ui.previewObject.position[3], rotation, scale)
    ELSE [placed |-> "none", chunk |-> c]

\* EditorUI.onMouseDown: the editor, the chunk and what placeObject returned
onMouseDown(ui, c, button, lower, rotation, scale) ==
    LET pressed == [ui EXCEPT !.mouseDown = TRUE, !.mouseButton = button]
    IN  IF button = 0 /\ pressed.mode = "brush"
        THEN [ui     |-> [pressed EXCEPT !.terrainBrush = startPaint(@, lower)],
              chunk  |-> c,
              placed |-> "none"]
        ELSE IF button = 0 /\ pressed.mode = "place"
        THEN [ui     |-> pressed,
              chunk  |-> placeObjectAtMouse(pressed, c, rotation, scale).chunk,
              placed |-> placeObjectAtMouse(pressed, c, rotation, scale).placed]
        ELSE [ui |-> pressed, chunk |-> c, placed |-> "none"]

\* EditorUI.onMouseUp
onMouseUp(ui) ==
    [ui EXCEPT !.mouseDown = FALSE,
               !.terrainBrush = IF ui.mode = "brush" THEN stopPaint(@) ELSE @]

\* EditorUI.applyBrushAtMouse: the chunk after the call
applyBrushAtMouse(ui, c, deltaTime) ==
    IF ~ui.mouseDown \/ ui.mode # "brush" THEN c
    ELSE LET intersection == findTerrainIntersection(c, ui.pointer)
         IN  IF intersection.null THEN c
             ELSE brushApply(ui.terrainBrush, c, intersection.p[1],
                             intersection.p[3], deltaTime)

----------------------------------------------------------------------------
(* The editor: chunk mutations and frame ticks.  Engine.init builds the   *)
(* chunk, and the UI that edits it is created after init has returned,   *)
(* in the same turn that starts the render loop (main.js): edits happen  *)
(* only while the loop runs.  Until init the variable chunk holds the    *)
(* chunk as its constructor makes it.                                    *)

Init ==
    /\ chunk = NewChunk(EngineSize, MaxResolution)
    /\ mesh = NoMesh
    /\ engine = "constructed"
    /\ last = Call("new", <<>>, chunk, <<>>)
    /\ nops = 0
    /\ gl = NewGL(InitialWindow)
    /\ loop = NewLoop
    /\ meshes = {}
    /\ editor = NewEditorUI

SetHeight ==
    /\ engine = "running"
    /\ nops < MaxOps
    /\ \E p \in SetCells(chunk), h \in SetValues :
          /\ chunk' = setHeight(chunk, p[1], p[2], h)
          /\ last' = Call("setHeight", <<p[1], p[2], h>>, chunk, <<>>)
    /\ nops' = nops + 1
    /\ UNCHANGED <<mesh, engine>>
    /\ UNCHANGED <<gl, loop, meshes, editor>>

ApplyBrush ==
    /\ engine = "running"
    /\ nops < MaxOps
    /\ \E w \in BrushCentres, r \in BrushRadii, m \in BrushModes :
          /\ chunk' = applyBrush(chunk, Num(w[1]), Num(w[2]), Num(r), m[1], m[2])
          /\ last' = Call("applyBrush", <<Num(w[1]), Num(w[2]), Num(r), m[1], m[2]>>,
                          chunk, <<>>)
    /\ nops' = nops + 1
    /\ UNCHANGED <<mesh, engine>>
    /\ UNCHANGED <<gl, loop, meshes, editor>>

AddObject ==
    /\ engine = "running"
    /\ nops < MaxOps
    /\ \E p \in ObjectPositions :
          /\ chunk' = addObject(chunk, "tree_pine", p, Num(0), Num(1))
          /\ last' = Call("addObject", <<p>>, chunk, <<>>)
    /\ nops' = nops + 1
    /\ UNCHANGED <<mesh, engine>>
    /\ UNCHANGED <<gl, loop, meshes, editor>>

FromJSON ==
    /\ engine = "running"
    /\ nops < MaxOps
    /\ \E data \in SavedChunks :
          /\ chunk' = fromJSON(chunk, data)
          /\ last' = Call("fromJSON", <<data>>, chunk, <<>>)
    /\ nops' = nops + 1
    /\ UNCHANGED <<mesh, engine>>
    /\ UNCHANGED <<gl, loop, meshes, editor>>

Reset ==
    /\ engine = "running"
    /\ nops < MaxOps
    /\ chunk' = reset(chunk)
    /\ last' = Call("reset", <<>>, chunk, <<>>)
    /\ nops' = nops + 1
    /\ UNCHANGED <<mesh, engine>>
    /\ UNCHANGED <<gl, loop, meshes, editor>>

\* what the graphics driver reports while a renderer's init sets up its
\* resources
GraphicsFaults == {"none", "compile", "link", "framebuffer"}

\* a renderer's init: a shader that failed to compile is null, and attaching it
\* throws a TypeError; a program that failed to link, or an incomplete shadow
\* framebuffer, is logged and init returns
rendererInitThrows(fault) == fault = "compile"

\* the calls Engine.init makes on the chunk and its mesh, in order
initSteps(fault) ==
    IF rendererInitThrows(fault)
    THEN <<"createInitialTerrain">>
    ELSE <<"createInitialTerrain", "generateMesh">>

\* Engine.init: new Chunk, initial terrain, the renderers' init (the object
\* renderer loads its meshes, the shadow renderer comes last), first mesh
EngineInit ==
    /\ engine = "constructed"
    /\ \E fault \in GraphicsFaults :
          LET c == createInitialTerrain(NewChunk(EngineSize, MaxResolution))
          IN  /\ last' = Call("init", <<fault>>, chunk, initSteps(fault))
              /\ IF rendererInitThrows(fault)
                 THEN /\ chunk' = c
                      /\ mesh' = mesh
                      /\ engine' = "failed"
                 ELSE /\ mesh' = generateMesh(c)
                      /\ chunk' = [c EXCEPT !.terrainDirty = FALSE]
                      /\ engine' = "initialized"
              /\ meshes' = ObjectTypes
    /\ UNCHANGED <<nops, gl, loop, editor>>

\* Engine.start
Start ==
    /\ engine = "initialized"
    /\ engine' = "running"
    /\ last' = Call("start", <<>>, chunk, <<>>)
    /\ loop' = start(loop)
    /\ UNCHANGED <<chunk, mesh, nops, gl, meshes, editor>>

\* Engine.render: one frame tick
Render ==
    /\ engine = "running"
    /\ loop.pending > 0
    /\ mesh' = updateMesh(chunk, mesh)
    /\ chunk' = updateChunk(chunk)
    /\ last' = Call("render", <<>>, chunk, renderSteps(chunk, engineUi))
    /\ gl' = sceneGL(gl)
    /\ loop' = frameCallback(loop)
    /\ UNCHANGED <<engine, nops, meshes, editor>>

Next ==
    \/ SetHeight
    \/ ApplyBrush
    \/ AddObject
    \/ FromJSON
    \/ Reset
    \/ EngineInit
    \/ Start
    \/ Render

Spec == Init /\ [][Next]_vars

----------------------------------------------------------------------------
(* The queries of a chunk, applied to height fields of the data model:   *)
(* each behaviour draws a field and makes one call                        *)

\* the world coordinate of grid column (or row) col
gridWorld(c, col) == Div(Mul(Num(col), Num(c.size)), Num(c.resolution - 1))

\* grid points, points between them, and points off the chunk
WorldCoords(c) ==
    {gridWorld(c, col) : col \in 0..(c.resolution - 1)}
        \cup {Num(-8), Num(20), Make(c.size, 3), Num(c.size + 8)}

RayOrigins ==
    {<<Num(32), Num(10), Num(32)>>, <<Num(0), Num(10), Num(0)>>,
     <<Num(-40), Num(4), Num(0)>>, <<Num(-12), Num(20), Num(-20)>>,
     <<Num(-40), Num(-2), Num(0)>>}

RayDirections ==
    {<<Num(0), Num(-1), Num(0)>>, <<Num(1), Num(-1), Num(0)>>,
     <<Num(1), Num(0), Num(0)>>, <<Make(1, 2), Num(-1), Make(1, 2)>>,
     <<Num(0), Num(1), Num(0)>>, <<Num(-1), Num(0), Num(0)>>}

Rays == {[origin |-> o, direction |-> d] : o \in RayOrigins, d \in RayDirections}

InitQuery ==
    /\ chunk \in Fields
    /\ mesh = NoMesh
    /\ engine = "constructed"
    /\ last = Call("new", <<>>, chunk, <<>>)
    /\ nops = 0
    /\ gl = NewGL(InitialWindow)
    /\ loop = NewLoop
    /\ meshes = {}
    /\ editor = NewEditorUI

GetHeight ==
    /\ last.op = "new"
    /\ \E x \in -1..chunk.resolution, z \in -1..chunk.resolution :
          last' = Call("getHeight", <<x, z>>, chunk, getHeight(chunk, x, z))
    /\ UNCHANGED <<chunk, mesh, engine, nops>>
    /\ UNCHANGED <<gl, loop, meshes, editor>>

GetHeightAt ==
    /\ last.op = "new"
    /\ \E wx \in WorldCoords(chunk), wz \in WorldCoords(chunk) :
          last' = Call("getHeightAt", <<wx, wz>>, chunk, getHeightAt(chunk, wx, wz))
    /\ UNCHANGED <<chunk, mesh, engine, nops>>
    /\ UNCHANGED <<gl, loop, meshes, editor>>

Pick ==
    /\ last.op = "new"
    /\ \E ray \in Rays :
          last' = Call("findTerrainIntersection", <<ray>>, chunk,
                       findTerrainIntersection(chunk, ray))
    /\ UNCHANGED <<chunk, mesh, engine, nops>>
    /\ UNCHANGED <<gl, loop, meshes, editor>>

PickV1 ==
    /\ last.op = "new"
    /\ \E ray \in Rays :
          last' = Call("findTerrainIntersectionV1", <<ray>>, chunk,
                       findTerrainIntersectionV1(chunk, ray))
    /\ UNCHANGED <<chunk, mesh, engine, nops>>
    /\ UNCHANGED <<gl, loop, meshes, editor>>

\* quickSave then quickLoad into another chunk
RoundTrip ==
    /\ last.op = "new"
    /\ last' = Call("roundTrip", <<>>, chunk,
                    fromJSON(NewChunk(EngineSize, MaxResolution),
                             parseJSON(stringifyJSON(toJSON(chunk)))))
    /\ UNCHANGED <<chunk, mesh, engine, nops>>
    /\ UNCHANGED <<gl, loop, meshes, editor>>

\* toJSON then fromJSON on another chunk, without the text
RoundTripData ==
    /\ last.op = "new"
    /\ last' = Call("roundTripData", <<>>, chunk,
                    fromJSON(NewChunk(EngineSize, MaxResolution), toJSON(chunk)))
    /\ UNCHANGED <<chunk, mesh, engine, nops>>
    /\ UNCHANGED <<gl, loop, meshes, editor>>

GenerateMesh ==
    /\ last.op = "new"
    /\ last' = Call("generateMesh", <<>>, chunk, generateMesh(chunk))
    /\ UNCHANGED <<chunk, mesh, engine, nops>>
    /\ UNCHANGED <<gl, loop, meshes, editor>>

\* positions handed to Chunk.addObject: on and off the grid points, inside and
\* outside the chunk, with heights that differ from the terrain's
PlacementPositions(c) ==
    {<<x, y, z>> : x \in {Num(0), Num(20), Make(c.size, 3), Num(c.size + 8)},
                   y \in {Num(0), Num(5), Num(-7)},
                   z \in {Num(0), Make(c.size, 2), Num(c.size)}}

AddObjectCall ==
    /\ last.op = "new"
    /\ \E type \in ObjectTypes, position \in PlacementPositions(chunk),
          rotation \in {Num(0), Make(3, 2)}, scale \in {Num(1), Make(9, 10)} :
          last' = Call("addObject", <<type, position, rotation, scale>>, chunk,
                       addObject(chunk, type, position, rotation, scale))
    /\ UNCHANGED <<chunk, mesh, engine, nops>>
    /\ UNCHANGED <<gl, loop, meshes, editor>>

\* <<worldX, worldZ, radius, strength, lower>> with radius > 0
BrushStrokes ==
    {<<Num(w[1]), Num(w[2]), Num(r), s, l>> :
        w \in {<<32, 32>>, <<40, 24>>}, r \in {16, 48},
        s \in {Make(1, 2), Make(2, 25)}, l \in BOOLEAN}

stroke(c, a) == applyBrush(c, a[1], a[2], a[3], a[4], a[5])

\* a stroke and the same stroke with lower = true after it; two strokes in
\* both orders
BrushPair ==
    /\ last.op = "new"
    /\ \E a \in BrushStrokes, b \in BrushStrokes :
          last' = Call("applyBrushPair", <<a, b>>, chunk,
                       [raised   |-> stroke(chunk, [a EXCEPT ![5] = FALSE]),
                        restored |-> stroke(stroke(chunk, [a EXCEPT ![5] = FALSE]),
                                            [a EXCEPT ![5] = TRUE]),
                        ab       |-> stroke(stroke(chunk, a), b),
                        ba       |-> stroke(stroke(chunk, b), a)])
    /\ UNCHANGED <<chunk, mesh, engine, nops>>
    /\ UNCHANGED <<gl, loop, meshes, editor>>

\* resolutions a chunk file can carry: fromJSON copies data.resolution
LoadedResolutions == {2, 3, 65, 256, 257, 300}

\* the part of generateMesh that builds and uploads the indices of the quad
\* (x, z) of a chunk of the given resolution
UploadIndices ==
    /\ last.op = "new"
    /\ \E resolution \in LoadedResolutions :
       \E x \in {0, resolution - 2}, z \in {0, (resolution - 2) \div 2, resolution - 2} :
          LET loaded == [chunk EXCEPT !.resolution = resolution]
          IN  last' = Call("uploadIndices", <<resolution, x, z>>, chunk,
                           [intended |-> quadIndices(loaded, x, z),
                            uploaded |-> uploadIndices(quadIndices(loaded, x, z))])
    /\ UNCHANGED <<chunk, mesh, engine, nops>>
    /\ UNCHANGED <<gl, loop, meshes, editor>>

\* the samples of the chunk are scaled by 2^e
HeightExponents == {0, 120, 124}

\* three points of one line, and three that span a triangle
TriangleCorners ==
    {<<<<0, 0, 0>>, <<1, 2, 3>>, <<2, 4, 6>>>>,
     <<<<5, 1, 5>>, <<5, 1, 5>>, <<7, 0, 2>>>>,
     <<<<0, 0, 0>>, <<0, 3, 1>>, <<1, 0, 0>>>>}

\* the normal computation of generateMesh on a field of finite 32-bit floats
FaceNormals ==
    /\ last.op = "new"
    /\ \E e \in HeightExponents :
          /\ \A i \in 1..Len(chunk.heights) : ~exceedsFloat32(big(chunk.heights[i], e))
          /\ last' = Call("faceNormals", <<e>>, chunk, f32FaceNormals(chunk, e))
    /\ UNCHANGED <<chunk, mesh, engine, nops>>
    /\ UNCHANGED <<gl, loop, meshes, editor>>

\* vec3.normalize(cross(v1 - v0, v2 - v0)) of one triangle
FaceNormal ==
    /\ last.op = "new"
    /\ \E corners \in TriangleCorners :
          LET vertices == [k \in 1..3 |-> [i \in 1..3 |-> Num(corners[k][i])]]
          IN  last' = Call("faceNormal", <<corners>>, chunk,
                           [exact |-> faceNormal(vertices, <<0, 1, 2>>, 0),
                            float |-> f32FaceNormal(
                                [k \in 1..3 |-> [i \in 1..3 |-> big(vertices[k][i], 0)]],
                                <<0, 1, 2>>, 0)])
    /\ UNCHANGED <<chunk, mesh, engine, nops>>
    /\ UNCHANGED <<gl, loop, meshes, editor>>

\* positions of the preview object: inside the chunk, on its edges and
\* beyond each of them
PreviewPositions(c) ==
    {<<Num(x), Num(0), Num(z)>> : x \in {-8, 0, 20, c.size, c.size + 8},
                                  z \in {-1, 0, 8, c.size, c.size + 1}}

previewAt(position, visible) ==
    [setMode(NewEditorUI, "place") EXCEPT
        !.previewObject = [@ EXCEPT !.position = position, !.visible = visible]]

\* two left clicks in place mode, the preview object at a position each
PlaceObjects ==
    /\ last.op = "new"
    /\ \E p \in PreviewPositions(chunk), q \in PreviewPositions(chunk),
          visible \in BOOLEAN :
          LET first  == placeObjectAtMouse(previewAt(p, visible), chunk,
                                           Num(3), Make(9, 10))
              second == placeObjectAtMouse(previewAt(q, TRUE), first.chunk,
                                           Num(0), Num(1))
          IN  last' = Call("placeObjects", <<p, visible, q>>, chunk,
                           <<first, second>>)
    /\ UNCHANGED <<chunk, mesh, engine, nops>>
    /\ UNCHANGED <<gl, loop, meshes, editor>>

NextQuery ==
    \/ GetHeight
    \/ GetHeightAt
    \/ Pick
    \/ PickV1
    \/ GenerateMesh
    \/ RoundTrip
    \/ RoundTripData
    \/ AddObjectCall
    \/ BrushPair
    \/ UploadIndices
    \/ FaceNormals
    \/ FaceNormal
    \/ PlaceObjects

SpecQuery == InitQuery /\ [][NextQuery]_vars

----------------------------------------------------------------------------
(* Claims about the queries, checked under SpecQuery *)

IsFlat(c) == \A i \in 1..Len(c.heights) : c.heights[i] = Num(0)

InRange(c, x, z) == 0 <= x /\ x < c.resolution /\ 0 <= z /\ z < c.resolution

\* C1: getHeightAt called with the world coordinates of a grid point (col, row),
\* 0 <= col, row <= resolution-1, returns exactly getHeight(col, row), also on
\* the last row and column, where the integer cell is clamped to resolution-2.
GridPointLookup ==
    \A col \in 0..(last.pre.resolution - 1), row \in 0..(last.pre.resolution - 1) :
        (/\ last.op = "getHeightAt"
         /\ last.args = <<gridWorld(last.pre, col), gridWorld(last.pre, row)>>)
            => last.ret = getHeight(last.pre, col, row)

\* a lookup at the last column and row of an uneven field
GridPointLookupWitness ==
    LET c == last.pre
        e == c.resolution - 1
    IN  /\ last.op = "getHeightAt"
        /\ last.args = <<gridWorld(c, e), gridWorld(c, e)>>
        /\ last.ret = getHeight(c, e, e)
        /\ getHeight(c, e, e) # getHeight(c, e - 1, e - 1)
        /\ getHeight(c, e, e) # getHeight(c, e - 1, e)

\* C7: getHeight(x, z) returns 0, and changes nothing, for x < 0, x >= resolution,
\* z < 0 or z >= resolution; in range it returns heights[z * resolution + x].
OutOfRangeHeightIsZero ==
    last.op = "getHeight" =>
        LET c == last.pre
            x == last.args[1]
            z == last.args[2]
        IN  /\ chunk = c
            /\ IF InRange(c, x, z)
               THEN last.ret = c.heights[z * c.resolution + x + 1]
               ELSE last.ret = Num(0)

\* a call one column past the row's end, where an unchecked read would find the
\* next row's first sample, which is not 0
OutOfRangeHeightWitness ==
    LET c == last.pre
    IN  /\ last.op = "getHeight"
        /\ last.args[1] = c.resolution
        /\ last.args[2] = 0
        /\ c.heights[c.resolution + 1] # Num(0)
        /\ last.ret = Num(0)

\* the ray point of step k (t = k * 0.5), its horizontal coordinates moved by off
StepPoint(ray, k, off) ==
    LET t == Make(k, 2)
    IN  <<Add(Add(ray.origin[1], Mul(ray.direction[1], t)), Num(off)),
          Add(ray.origin[2], Mul(ray.direction[2], t)),
          Add(Add(ray.origin[3], Mul(ray.direction[3], t)), Num(off))>>

\* step k lies over the field and at or below the terrain
Crosses(c, ray, k, off) ==
    LET p == StepPoint(ray, k, off)
    IN  /\ Leq(Num(0), p[1]) /\ Leq(p[1], Num(c.size))
        /\ Leq(Num(0), p[3]) /\ Leq(p[3], Num(c.size))
        /\ Leq(p[2], getHeightAt(c, p[1], p[3]))

\* the steps t = 0, 0.5, ... while t < 200
MarchSteps == 0..(2 * maxDistance - 1)

FirstCrossingOf(op, off) ==
    last.op = op =>
        LET c    == last.pre
            ray  == last.args[1]
            hits == {k \in MarchSteps : Crosses(c, ray, k, off)}
        IN  hits # {} =>
                \E k \in hits :
                    /\ \A j \in hits : k <= j
                    /\ ~last.ret.null
                    /\ last.ret.p[1] = StepPoint(ray, k, off)[1]
                    /\ last.ret.p[3] = StepPoint(ray, k, off)[3]
                    /\ last.ret.p[2] = getHeightAt(c, last.ret.p[1], last.ret.p[3])

\* C9: findTerrainIntersection marches t = 0, 0.5, 1.0, ... while t < 200 and
\* returns the point of the first step whose horizontal field coordinates lie in
\* [0, size] on both axes and whose ray height is <= getHeightAt there; the
\* height returned is getHeightAt at the returned horizontal coordinates.  The
\* current class moves the ray by 32 into field coordinates, the earlier one
\* marches the ray as given.
FirstCrossing ==
    /\ FirstCrossingOf("findTerrainIntersection", chunkOffset)
    /\ FirstCrossingOf("findTerrainIntersectionV1", 0)

\* a slanted ray that meets an uneven field after some steps above it, exactly
\* at the terrain height of that step
FirstCrossingWitness ==
    /\ last.op = "findTerrainIntersection"
    /\ ~IsFlat(last.pre)
    /\ ~last.ret.null
    /\ last.args[1].direction[1] # Num(0)
    /\ \E k \in MarchSteps :
          /\ k > 2
          /\ \A j \in 0..(k - 1) : ~Crosses(last.pre, last.args[1], j, chunkOffset)
          /\ Crosses(last.pre, last.args[1], k, chunkOffset)
          /\ StepPoint(last.args[1], k, chunkOffset)[2] = last.ret.p[2]

DownRay(x, y, z) ==
    [origin |-> <<Num(x), Num(y), Num(z)>>, direction |-> <<Num(0), Num(-1), Num(0)>>]

OriginOutside(c, ray, off) ==
    LET x == Add(ray.origin[1], Num(off))
        z == Add(ray.origin[3], Num(off))
    IN  \/ Lt(x, Num(0)) \/ Lt(Num(c.size), x)
        \/ Lt(z, Num(0)) \/ Lt(Num(c.size), z)

NoCrossing(c, ray, off) == \A k \in MarchSteps : ~Crosses(c, ray, k, off)

PickOps == {<<"findTerrainIntersection", chunkOffset>>, <<"findTerrainIntersectionV1", 0>>}

\* C11 as stated: the pick returns null for every ray whose vertical direction
\* component is zero and whose origin lies outside the grid's horizontal
\* extent, for every height field and every ray height.
HorizontalFromOutsideIsNull ==
    \A o \in PickOps :
        (/\ last.op = o[1]
         /\ last.args[1].direction[2] = Num(0)
         /\ OriginOutside(last.pre, last.args[1], o[2]))
            => last.ret = Null

\* C11, amended: the pick returns null for every ray whose vertical direction
\* component is zero and whose origin lies outside the grid's horizontal
\* extent, provided no marching step lies over the grid at or below the terrain.
HorizontalMissIsNull ==
    \A o \in PickOps :
        (/\ last.op = o[1]
         /\ last.args[1].direction[2] = Num(0)
         /\ OriginOutside(last.pre, last.args[1], o[2])
         /\ NoCrossing(last.pre, last.args[1], o[2]))
            => last.ret = Null

\* a horizontal ray from outside that travels over the grid, above the terrain
HorizontalMissWitness ==
    LET c   == last.pre
        ray == last.args[1]
    IN  /\ last.op = "findTerrainIntersection"
        /\ ray.direction[2] = Num(0)
        /\ OriginOutside(c, ray, chunkOffset)
        /\ NoCrossing(c, ray, chunkOffset)
        /\ \E k \in MarchSteps :
              LET q == StepPoint(ray, k, chunkOffset)
              IN  inChunkBounds(c, q[1], q[3])
        /\ last.ret = Null

\* the parameter of the ray's intersection with the plane y = 0
PlaneT(ray) == Div(Neg(ray.origin[2]), ray.direction[2])

\* the ray counts as parallel to the plane: |direction.y| < 0.0001
Parallel(ray) == Lt(AbsNum(ray.direction[2]), parallelEps)

\* C12: when no marching step produces an in-bounds crossing, the pick returns
\* the intersection of the ray with the plane y = 0, at t = -origin.y /
\* direction.y and with height exactly 0 (in field coordinates for the current
\* class, in the ray's own for the earlier one), and null when the ray is
\* parallel to the plane or t < 0.
FallbackToGroundPlane ==
    \A o \in PickOps :
        (last.op = o[1] /\ NoCrossing(last.pre, last.args[1], o[2])) =>
            LET ray == last.args[1]
                t   == PlaneT(ray)
            IN  IF Parallel(ray) \/ Lt(t, Num(0))
                THEN last.ret = Null
                ELSE last.ret =
                        Point(<<Add(Add(ray.origin[1], Mul(ray.direction[1], t)), Num(o[2])),
                                Num(0),
                                Add(Add(ray.origin[3], Mul(ray.direction[3], t)), Num(o[2]))>>)

\* a slanted ray that misses the grid and meets the ground plane beside it
FallbackToGroundPlaneWitness ==
    LET ray == last.args[1]
    IN  /\ last.op = "findTerrainIntersection"
        /\ NoCrossing(last.pre, ray, chunkOffset)
        /\ ~Parallel(ray)
        /\ ray.direction[1] # Num(0)
        /\ Lt(Num(0), PlaneT(ray))
        /\ ~last.ret.null
        /\ last.ret.p[2] = Num(0)
        /\ ~inChunkBounds(last.pre, last.ret.p[1], last.ret.p[3])

----------------------------------------------------------------------------
(* Claims about the terrain mesh, checked under SpecQuery *)

\* the triangles of an index buffer, numbered from 0
TrianglesOf(indices) == 0..((Len(indices) \div 3) - 1)

\* the triangles that reference vertex index v (from 0)
TrianglesAt(indices, v) ==
    {t \in TrianglesOf(indices) : \E k \in 1..3 : indices[3 * t + k] = v}

\* C13: generateMesh on a chunk whose heights are all zero gives every vertex
\* the normal (0, 1, 0): every triangle's normal points up and every vertex is
\* referenced by at least one triangle.
FlatMeshNormalsUp ==
    (last.op = "generateMesh" /\ IsFlat(last.pre)) =>
        LET m   == last.ret
            res == last.pre.resolution
        IN  /\ Len(m.normals) = res * res
            /\ \A t \in TrianglesOf(m.indices) :
                  faceNormal(m.vertices, m.indices, t) = Unit(0, 1, 0)
            /\ \A v \in 0..(res * res - 1) :
                  /\ TrianglesAt(m.indices, v) # {}
                  /\ m.normals[v + 1] = Unit(0, 1, 0)

\* the mesh of a flat field with inner vertices
FlatMeshNormalsUpWitness ==
    /\ last.op = "generateMesh"
    /\ IsFlat(last.pre)
    /\ last.pre.resolution >= 3
    /\ last.ret.normals[1] = Unit(0, 1, 0)

\* twice the signed area, seen from above, of triangle t of mesh m
SignedArea(m, t) ==
    LET a == m.vertices[m.indices[3 * t + 1] + 1]
        b == m.vertices[m.indices[3 * t + 2] + 1]
        c == m.vertices[m.indices[3 * t + 3] + 1]
    IN  Sub(Mul(Sub(b[1], a[1]), Sub(c[3], a[3])), Mul(Sub(b[3], a[3]), Sub(c[1], a[1])))

\* C14: generateMesh emits resolution^2 vertex positions, vertex (x, z) being
\* (x*size/(resolution-1), heights[z*resolution + x], z*size/(resolution-1)),
\* and 2*(resolution-1)^2 triangles, two per grid quad: (topLeft, bottomLeft,
\* topRight) and (topRight, bottomLeft, bottomRight), wound the same way.
MeshLayout ==
    last.op = "generateMesh" =>
        LET c   == last.pre
            m   == last.ret
            res == c.resolution
            q   == res - 1
        IN  /\ Len(m.vertices) = res * res
            /\ \A x \in 0..q, z \in 0..q :
                  m.vertices[z * res + x + 1] =
                      <<Div(Num(x * c.size), Num(q)),
                        c.heights[z * res + x + 1],
                        Div(Num(z * c.size), Num(q))>>
            /\ Len(m.indices) = 3 * (2 * q * q)
            /\ \A x \in 0..(q - 1), z \in 0..(q - 1) :
                  LET j           == 6 * (z * q + x)
                      topLeft     == z * res + x
                      bottomLeft  == (z + 1) * res + x
                  IN  /\ <<m.indices[j + 1], m.indices[j + 2], m.indices[j + 3]>>
                            = <<topLeft, bottomLeft, topLeft + 1>>
                      /\ <<m.indices[j + 4], m.indices[j + 5], m.indices[j + 6]>>
                            = <<topLeft + 1, bottomLeft, bottomLeft + 1>>
            /\ \A t \in TrianglesOf(m.indices) : Lt(SignedArea(m, t), Num(0))

\* the mesh of an uneven field with more than one quad per row
MeshLayoutWitness ==
    /\ last.op = "generateMesh"
    /\ ~IsFlat(last.pre)
    /\ last.pre.resolution >= 3
    /\ Len(last.ret.indices) >= 24
    /\ last.ret.vertices[2][2] # last.ret.vertices[1][2]

\* the last triangle, in index-buffer order, that references vertex v
LastTriangleAt(indices, v) ==
    CHOOSE t \in TrianglesAt(indices, v) : \A u \in TrianglesAt(indices, v) : u <= t

\* C19: after generateMesh the normal stored for each vertex index equals the
\* face normal of the last triangle, in index-buffer order, that references
\* it; normals of several triangles are not averaged.
LastTriangleWins ==
    last.op = "generateMesh" =>
        LET m == last.ret
        IN  \A v \in 0..(Len(m.vertices) - 1) :
                TrianglesAt(m.indices, v) # {} =>
                    m.normals[v + 1] =
                        faceNormal(m.vertices, m.indices, LastTriangleAt(m.indices, v))

\* a vertex shared by triangles with different normals, which holds the last
\* one's and not the first one's
LastTriangleWinsWitness ==
    /\ last.op = "generateMesh"
    /\ LET m == last.ret
       IN  \E v \in 0..(Len(m.vertices) - 1) :
               \E t \in TrianglesAt(m.indices, v) :
                   /\ t < LastTriangleAt(m.indices, v)
                   /\ faceNormal(m.vertices, m.indices, t) # m.normals[v + 1]
                   /\ m.normals[v + 1] =
                         faceNormal(m.vertices, m.indices, LastTriangleAt(m.indices, v))

----------------------------------------------------------------------------
(* Claims about saving and loading, checked under SpecQuery *)

\* the height-field invariant of the data model
ValidField(c) ==
    /\ Len(c.heights) = c.resolution * c.resolution
    /\ \A i \in 1..Len(c.heights) : IsFinite(c.heights[i])
    /\ c.resolution >= 2
    /\ c.size > 0

\* C15: for every chunk that satisfies the height-field invariant, toJSON,
\* also through JSON text as ChunkIO writes and reads it, followed by fromJSON
\* reproduces the same heights (length and value at every index), size and
\* resolution.
SaveLoadRoundTrip ==
    (last.op \in {"roundTrip", "roundTripData"} /\ ValidField(last.pre)) =>
        /\ Len(last.ret.heights) = Len(last.pre.heights)
        /\ \A i \in 1..Len(last.pre.heights) : last.ret.heights[i] = last.pre.heights[i]
        /\ last.ret.size = last.pre.size
        /\ last.ret.resolution = last.pre.resolution

\* a field with negative and fractional samples, of another shape than the
\* chunk it is loaded into, saved as text and loaded
SaveLoadRoundTripWitness ==
    /\ last.op = "roundTrip"
    /\ ValidField(last.pre)
    /\ last.pre.size # EngineSize
    /\ last.pre.resolution # MaxResolution
    /\ \E i \in 1..Len(last.pre.heights) :
          /\ Lt(last.pre.heights[i], Num(0))
          /\ last.pre.heights[i].d > 1
          /\ last.ret.heights[i] = last.pre.heights[i]

----------------------------------------------------------------------------
(* Claims about the brush and the dirty flag, checked under Spec *)

\* grid = (world / size) * (resolution - 1)
GridOf(c, world) == Div(Mul(world, Num(c.resolution - 1)), Num(c.size))

\* squared grid-space distance of cell (x, z) from the brush centre of call a
Dist2(c, a, x, z) ==
    LET dx == Sub(Num(x), GridOf(c, a[1]))
        dz == Sub(Num(z), GridOf(c, a[2]))
    IN  Add(Mul(dx, dx), Mul(dz, dz))

\* squared gridRadius of call a
Radius2(c, a) == Mul(GridOf(c, a[3]), GridOf(c, a[3]))

\* the cell's distance from the centre is <= gridRadius
WithinRadius(c, a, x, z) ==
    Leq(Num(0), GridOf(c, a[3])) /\ Leq(Dist2(c, a, x, z), Radius2(c, a))

CellX(c, i) == (i - 1) % c.resolution

CellZ(c, i) == (i - 1) \div c.resolution

\* C2: after applyBrush with radius > 0, every sample that differs belongs to a
\* cell whose grid-space distance to the brush centre is <= gridRadius; size,
\* resolution and the object list are unchanged.
BrushStaysInRadius ==
    (last.op = "applyBrush" /\ Lt(Num(0), last.args[3])) =>
        LET c == last.pre
        IN  /\ chunk.size = c.size
            /\ chunk.resolution = c.resolution
            /\ chunk.objects = c.objects
            /\ Len(chunk.heights) = Len(c.heights)
            /\ \A i \in 1..Len(c.heights) :
                  chunk.heights[i] # c.heights[i]
                      => WithinRadius(c, last.args, CellX(c, i), CellZ(c, i))

\* a brush on a chunk with objects that changes a sample and leaves alone a cell
\* of its bounding rectangle that is farther than gridRadius
BrushStaysInRadiusWitness ==
    LET c  == last.pre
        a  == last.args
    IN  /\ last.op = "applyBrush"
        /\ Lt(Num(0), a[3])
        /\ c.objects # <<>>
        /\ \E i \in 1..Len(c.heights) : chunk.heights[i] # c.heights[i]
        /\ \E j \in 1..Len(c.heights) :
              LET dx == Sub(Num(CellX(c, j)), GridOf(c, a[1]))
                  dz == Sub(Num(CellZ(c, j)), GridOf(c, a[2]))
              IN  /\ Leq(Mul(dx, dx), Radius2(c, a))
                  /\ Leq(Mul(dz, dz), Radius2(c, a))
                  /\ ~WithinRadius(c, a, CellX(c, j), CellZ(c, j))
                  /\ chunk.heights[j] = c.heights[j]

\* C3 as stated: applyBrush with lower = true strictly decreases, and with
\* lower = false strictly increases, every in-range cell at grid distance
\* <= gridRadius; a cell where the falloff is 0 may stay unchanged.
BrushMovesOneWay ==
    last.op = "applyBrush" =>
        LET c == last.pre
            a == last.args
        IN  \A i \in 1..Len(c.heights) :
                WithinRadius(c, a, CellX(c, i), CellZ(c, i)) =>
                    \/ IF a[5] THEN Lt(chunk.heights[i], c.heights[i])
                               ELSE Lt(c.heights[i], chunk.heights[i])
                    \/ /\ Lt(Num(0), GridOf(c, a[3]))
                       /\ Dist2(c, a, CellX(c, i), CellZ(c, i)) = Radius2(c, a)
                       /\ chunk.heights[i] = c.heights[i]

\* 1 - dist/gridRadius of cell (x, z)
FalloffOf(c, a, x, z) ==
    Sub(Num(1), RoundSqrt(Div(Dist2(c, a, x, z), Radius2(c, a))))

SignOf(a) == Num(IF a[5] THEN -1 ELSE 1)

\* C4: applyBrush adds strength * (1 - dist/gridRadius) * sign once to each
\* in-range cell with dist <= gridRadius; when radius > 0, a cell on the brush
\* centre changes by exactly strength * sign and a cell at dist = gridRadius
\* changes by 0.
BrushAddsFalloff ==
    last.op = "applyBrush" =>
        LET c == last.pre
            a == last.args
        IN  \A i \in 1..Len(c.heights) :
                LET x  == CellX(c, i)
                    z  == CellZ(c, i)
                    d2 == Dist2(c, a, x, z)
                IN  WithinRadius(c, a, x, z) =>
                        /\ chunk.heights[i] =
                              Add(c.heights[i],
                                  Mul(Mul(a[4], FalloffOf(c, a, x, z)), SignOf(a)))
                        /\ (Lt(Num(0), a[3]) /\ d2 = Num(0)) =>
                              chunk.heights[i] = Add(c.heights[i], Mul(a[4], SignOf(a)))
                        /\ (Lt(Num(0), a[3]) /\ d2 = Radius2(c, a)) =>
                              chunk.heights[i] = c.heights[i]

\* a brush centred on a grid point of an uneven field, with a cell on its rim
\* and a cell strictly between the centre and the rim
BrushAddsFalloffWitness ==
    LET c == last.pre
        a == last.args
    IN  /\ last.op = "applyBrush"
        /\ Lt(Num(0), a[3])
        /\ \E i \in 1..Len(c.heights) :
              /\ Dist2(c, a, CellX(c, i), CellZ(c, i)) = Num(0)
              /\ c.heights[i] # Num(0)
              /\ IsFinite(c.heights[i])
              /\ chunk.heights[i] # c.heights[i]
        /\ \E j \in 1..Len(c.heights) :
              /\ Dist2(c, a, CellX(c, j), CellZ(c, j)) = Radius2(c, a)
        /\ \E k \in 1..Len(c.heights) :
              /\ Lt(Num(0), Dist2(c, a, CellX(c, k), CellZ(c, k)))
              /\ Lt(Dist2(c, a, CellX(c, k), CellZ(c, k)), Radius2(c, a))

\* C5 as stated: applyBrush with a zero or negative radius visits no cells: every
\* sample is unchanged, also when the centre lies exactly on a grid point.
NonPositiveRadiusChangesNothing ==
    (last.op = "applyBrush" /\ Leq(last.args[3], Num(0)))
        => chunk.heights = last.pre.heights

\* C6 as stated: in every reachable state heights.length = resolution^2, every
\* height is finite, resolution >= 2 and size > 0.
HeightFieldInvariant ==
    /\ Len(chunk.heights) = chunk.resolution * chunk.resolution
    /\ \A i \in 1..Len(chunk.heights) : IsFinite(chunk.heights[i])
    /\ chunk.resolution >= 2
    /\ chunk.size > 0

\* C8: every setHeight, applyBrush, fromJSON or reset that changes a sample, the
\* size or the resolution leaves terrainDirty true; terrainDirty goes from true
\* to false only in a step that has just run generateMesh on the chunk (a frame
\* tick, or Engine.init, which fills the first terrain and meshes it in the same
\* call); and whenever terrainDirty is false the uploaded mesh is the one
\* generated from the chunk's current heights, size and resolution.
DirtyProtocol ==
    /\ [](~chunk.terrainDirty => mesh = generateMesh(chunk))
    /\ [][/\ (/\ \/ chunk'.heights # chunk.heights
                 \/ chunk'.size # chunk.size
                 \/ chunk'.resolution # chunk.resolution
              /\ last'.op # "init") => chunk'.terrainDirty
          /\ (chunk.terrainDirty /\ ~chunk'.terrainDirty)
                 => last'.op \in {"init", "render"}]_vars

\* a frame tick that rebuilt the mesh after an edit made while it was clean
DirtyProtocolWitness ==
    /\ last.op = "render"
    /\ last.pre.terrainDirty
    /\ ~chunk.terrainDirty
    /\ nops > 0
    /\ mesh = generateMesh(chunk)
    /\ mesh # generateMesh(createInitialTerrain(NewChunk(EngineSize, MaxResolution)))

----------------------------------------------------------------------------
(* Claims about the engine's start-up and frame, checked under Spec *)

\* C16 as stated: a graphics-resource setup failure during initialization (a
\* shader failing to compile, a program failing to link, the shadow framebuffer
\* being incomplete) makes Engine.init fail, so that the render loop is not
\* started.
InitFailureAbortsStartup ==
    (last.op = "init" /\ last.args[1] # "none") => engine = "failed"

Positions(s, name) == {i \in 1..Len(s) : s[i] = name}

DepthDraws == {"shadowTerrain", "shadowObject"}

ColourDraws == {"grid", "terrain", "object", "renderPreview"}

\* the position of the only occurrence of name in s, or 0
Only(s, name) ==
    IF Cardinality(Positions(s, name)) = 1
    THEN CHOOSE i \in Positions(s, name) : TRUE
    ELSE 0

\* C17: the calls of a frame are in order: the mesh is regenerated first,
\* exactly when the chunk was dirty; then the light-space matrix; then the
\* depth pass (begin, terrain, every object, end); then the colour pass
\* (grid, terrain, every object, at most one preview); no colour draw
\* before endShadowPass, no depth draw outside begin..end
FrameOrder ==
    last.op = "render" =>
        LET s     == last.ret
            n     == Len(last.pre.objects)
            gen   == Positions(s, "generateMesh")
            light == Only(s, "updateLightSpaceMatrix")
            begin == Only(s, "beginShadowPass")
            end   == Only(s, "endShadowPass")
        IN  /\ gen = (IF last.pre.terrainDirty THEN {1} ELSE {})
            /\ light = Cardinality(gen) + 1
            /\ begin = light + 1
            /\ Only(s, "shadowTerrain") = begin + 1
            /\ Positions(s, "shadowObject") = (begin + 2)..(begin + 1 + n)
            /\ end = begin + 2 + n
            /\ Only(s, "grid") > end
            /\ Only(s, "terrain") > Only(s, "grid")
            /\ Cardinality(Positions(s, "object")) = n
            /\ \A i \in Positions(s, "object") : i > Only(s, "terrain")
            /\ Cardinality(Positions(s, "renderPreview")) <= 1
            /\ \A i \in Positions(s, "renderPreview") :
                  /\ i = Len(s)
                  /\ \A j \in Positions(s, "object") : j < i
            /\ \A i \in 1..Len(s) :
                  /\ s[i] \in ColourDraws => i > end
                  /\ s[i] \in DepthDraws => (begin < i /\ i < end)

\* a frame that regenerates the mesh and draws an object in both passes
FrameOrderWitness ==
    /\ last.op = "render"
    /\ last.pre.terrainDirty
    /\ Len(last.pre.objects) > 0
    /\ Positions(last.ret, "shadowObject") # {}
    /\ Positions(last.ret, "object") # {}

\* the step just taken has called TerrainRenderer.generateMesh
Invoked(call) ==
    /\ call.op \in {"init", "render"}
    /\ Positions(call.ret, "generateMesh") # {}

\* C20: generateMesh is called only by Engine.init and Engine.update, only
\* when the chunk's terrainDirty is set at the call, and the step that calls
\* it ends with terrainDirty cleared; no other step changes the mesh
MeshInvocationPolicy ==
    [][/\ Invoked(last') =>
             /\ last'.op = "render" => chunk.terrainDirty
             /\ last'.op = "init" =>
                   createInitialTerrain(NewChunk(EngineSize, MaxResolution)).terrainDirty
             /\ ~chunk'.terrainDirty
       /\ mesh' # mesh => Invoked(last')
       /\ (last'.op = "render" /\ chunk.terrainDirty) => Invoked(last')]_vars

\* a frame that found the chunk dirty has regenerated the mesh and left the
\* chunk clean
MeshInvocationPolicyWitness ==
    /\ last.op = "render"
    /\ last.pre.terrainDirty
    /\ Invoked(last)
    /\ ~chunk.terrainDirty
    /\ mesh = generateMesh(last.pre)
    /\ mesh # generateMesh(createInitialTerrain(NewChunk(EngineSize, MaxResolution)))

----------------------------------------------------------------------------
(* terrain.frag: the shadow factor of a fragment *)

dot(a, b) == Add(Add(Mul(a[1], b[1]), Mul(a[2], b[2])), Mul(a[3], b[3]))

\* normalize(v), for a vector whose length is rational
normalize(v) ==
    LET len == RoundSqrt(dot(v, v))
    IN  <<Div(v[1], len), Div(v[2], len), Div(v[3], len)>>

\* max(x, y) of the shading language: y if x < y, otherwise x
maxFloat(x, y) == IF Lt(x, y) THEN y ELSE x

\* a depth texture of size x size texels, row by row
ShadowMap(size, depth) == [size |-> size, depth |-> depth]

\* the texel a coordinate falls in: NEAREST filtering, CLAMP_TO_EDGE wrapping
texelIndex(map, u) == Max(0, Min(map.size - 1, Floor(Mul(u, Num(map.size)))))

\* texture(uShadowMap, uv).r
texture(map, uv) ==
    map.depth[texelIndex(map, uv[2]) * map.size + texelIndex(map, uv[1]) + 1]

\* the perspective divide and the remapping from [-1,1] to [0,1]
projCoordsOf(vLightSpacePos) ==
    [k \in 1..3 |->
        Add(Mul(Div(vLightSpacePos[k], vLightSpacePos[4]), Make(1, 2)), Make(1, 2))]

outsideShadowMap(projCoords) ==
    \/ Lt(Num(1), projCoords[3])
    \/ Lt(projCoords[1], Num(0))
    \/ Lt(Num(1), projCoords[1])
    \/ Lt(projCoords[2], Num(0))
    \/ Lt(Num(1), projCoords[2])

shadowBias(vNormal, uLightDir) ==
    LET N        == normalize(vNormal)
        cosTheta == maxFloat(dot(N, uLightDir), Num(0))
    IN  maxFloat(Mul(Make(2, 1000), Sub(Num(1), cosTheta)), Make(1, 1000))

\* the coordinate of the sample (x, y) of the 3x3 kernel
pcfCoord(projCoords, map, x, y) ==
    LET texelSize == Div(Num(1), Num(map.size))
    IN  <<Add(projCoords[1], Mul(Num(x), texelSize)),
          Add(projCoords[2], Mul(Num(y), texelSize))>>

\* mutant: the comparison without the bias
pcfSampleNoBias(currentDepth, bias, pcfDepth) ==
    IF Lt(pcfDepth, currentDepth) THEN Num(0) ELSE Num(1)

\* currentDepth - bias > pcfDepth ? 0.0 : 1.0
pcfSample(currentDepth, bias, pcfDepth) ==
    IF Lt(pcfDepth, Sub(currentDepth, bias)) THEN Num(0) ELSE Num(1)

\* the two loops over x and y in -1..1; k counts the samples taken
RECURSIVE pcfLoop(_, _, _, _, _)
pcfLoop(projCoords, bias, map, k, shadow) ==
    IF k = 9 THEN shadow
    ELSE LET x        == (k \div 3) - 1
             y        == (k % 3) - 1
             pcfDepth == texture(map, pcfCoord(projCoords, map, x, y))
         IN  pcfLoop(projCoords, bias, map, k + 1,
                     Add(shadow, pcfSample(projCoords[3], bias, pcfDepth)))

calculateShadow(vLightSpacePos, vNormal, uLightDir, map) ==
    LET projCoords == projCoordsOf(vLightSpacePos)
    IN  IF outsideShadowMap(projCoords) THEN Num(1)
        ELSE Div(pcfLoop(projCoords, shadowBias(vNormal, uLightDir), map, 0, Num(0)),
                 Num(9))

----------------------------------------------------------------------------
(* The shader applied to fragments: each behaviour shades one fragment *)

\* clip-space coordinates of fragments: inside, on and beyond the light's box
ClipX == {Num(-2), Num(-1), Num(0), Make(1, 2), Num(1), Num(2)}

ClipY == {Num(-2), Num(0), Num(1)}

ClipZ == {Num(-2), Num(-1), Num(0), Make(1, 1000), Num(1), Num(2)}

ClipW == {Num(1), Num(2)}

FragmentNormals ==
    {<<Num(0), Num(1), Num(0)>>, <<Num(0), Num(3), Num(4)>>, <<Num(0), Num(0), Num(2)>>}

LightDirs ==
    {<<Num(0), Num(1), Num(0)>>, <<Num(0), Num(0), Num(1)>>, <<Num(0), Num(-1), Num(0)>>}

ShadowMapSizes == {2, 3}

\* depth textures: stored depths are in [0,1]
ShadowMaps ==
    UNION {{ShadowMap(n, [i \in 1..(n * n) |-> Num(0)]),
            ShadowMap(n, [i \in 1..(n * n) |-> Num(1)]),
            ShadowMap(n, [i \in 1..(n * n) |-> Make(1, 2)]),
            ShadowMap(n, [i \in 1..(n * n) |-> Make(i - 1, n * n - 1)]),
            ShadowMap(n, [i \in 1..(n * n) |-> Num(i % 2)])} : n \in ShadowMapSizes}

----------------------------------------------------------------------------
(* ShadowRenderer: the light-space matrix.  Matrices are the 16 entries in
   column-major order, as gl-matrix keeps them. *)

\* Math.sin and Math.cos of an angle in degrees, for the multiples of 90
sinDeg(a) == Num(CASE a % 360 = 90 -> 1 [] a % 360 = 270 -> -1 [] OTHER -> 0)

cosDeg(a) == Num(CASE a % 360 = 0 -> 1 [] a % 360 = 180 -> -1 [] OTHER -> 0)

\* Engine.getLightDirection
getLightDirection(azimuth, elevation) ==
    <<Mul(cosDeg(elevation), sinDeg(azimuth)),
      sinDeg(elevation),
      Mul(cosDeg(elevation), cosDeg(azimuth))>>

lightDistance == 100

lightProjectionSize == 80

lightNear == 1

lightFar == 150

vec3Scale(v, s) == <<Mul(v[1], s), Mul(v[2], s), Mul(v[3], s)>>

\* Math.hypot of the three components
hypot(v) == RoundSqrt(dot(v, v))

\* glMatrix.EPSILON
EPSILON == Make(1, 1000000)

mat4Identity ==
    <<Num(1), Num(0), Num(0), Num(0),
      Num(0), Num(1), Num(0), Num(0),
      Num(0), Num(0), Num(1), Num(0),
      Num(0), Num(0), Num(0), Num(1)>>

\* mutant: the axis is divided by its length whatever the length is
lookAtAxisUnguarded(v) == normalize(v)

\* an axis of the view basis: if (!len) the axis is zero, else it is scaled
\* by 1 / len; a NaN length is falsy too
lookAtAxis(v) ==
    LET len == hypot(v)
    IN  IF len = Num(0) \/ IsNaN(len) THEN <<Num(0), Num(0), Num(0)>>
        ELSE vec3Scale(v, Div(Num(1), len))

\* mat4.lookAt(out, eye, center, up)
mat4LookAt(eye, center, up) ==
    IF \A i \in 1..3 : Lt(AbsNum(Sub(eye[i], center[i])), EPSILON)
    THEN mat4Identity
    ELSE LET z == normalize(vecSubtract(eye, center))
             x == lookAtAxis(vecCross(up, z))
             y == lookAtAxis(vecCross(z, x))
         IN  <<x[1], y[1], z[1], Num(0),
               x[2], y[2], z[2], Num(0),
               x[3], y[3], z[3], Num(0),
               Neg(dot(x, eye)), Neg(dot(y, eye)), Neg(dot(z, eye)), Num(1)>>

\* mat4.ortho(out, left, right, bottom, top, near, far)
mat4Ortho(left, right, bottom, top, near, far) ==
    LET lr == Div(Num(1), Sub(left, right))
        bt == Div(Num(1), Sub(bottom, top))
        nf == Div(Num(1), Sub(near, far))
    IN  <<Mul(Num(-2), lr), Num(0), Num(0), Num(0),
          Num(0), Mul(Num(-2), bt), Num(0), Num(0),
          Num(0), Num(0), Mul(Num(2), nf), Num(0),
          Mul(Add(left, right), lr), Mul(Add(top, bottom), bt),
          Mul(Add(far, near), nf), Num(1)>>

\* mat4.multiply(out, a, b): entry (row, col) of a * b
mat4Multiply(a, b) ==
    [k \in 1..16 |->
        LET row == (k - 1) % 4
            col == (k - 1) \div 4
        IN  Add(Add(Mul(a[row + 1], b[4 * col + 1]), Mul(a[row + 5], b[4 * col + 2])),
                Add(Mul(a[row + 9], b[4 * col + 3]), Mul(a[row + 13], b[4 * col + 4])))]

\* Math3D.normalize: the zero vector for a vector of length 0
math3dNormalize(v) ==
    LET len == RoundSqrt(dot(v, v))
    IN  IF len = Num(0) THEN <<Num(0), Num(0), Num(0)>>
        ELSE <<Div(v[1], len), Div(v[2], len), Div(v[3], len)>>

\* Math3D.lookAt, the look-at of the repository's own math utilities
math3dLookAt(eye, target, up) ==
    LET z == math3dNormalize(vecSubtract(eye, target))
        x == math3dNormalize(vecCross(up, z))
        y == vecCross(z, x)
    IN  <<x[1], y[1], z[1], Num(0),
          x[2], y[2], z[2], Num(0),
          x[3], y[3], z[3], Num(0),
          Neg(dot(x, eye)), Neg(dot(y, eye)), Neg(dot(z, eye)), Num(1)>>

lightViewMatrix(lightDir) ==
    LET lightPos == vec3Scale(lightDir, Num(-lightDistance))
        target   == <<Num(0), Num(0), Num(0)>>
        up       == <<Num(0), Num(1), Num(0)>>
    IN  mat4LookAt(lightPos, target, up)

updateLightSpaceMatrix(lightDir) ==
    LET size == Num(lightProjectionSize)
    IN  mat4Multiply(mat4Ortho(Neg(size), size, Neg(size), size,
                               Num(lightNear), Num(lightFar)),
                     lightViewMatrix(lightDir))

\* Engine.setLightDirection stores any angles it is given
LightAzimuths == {0, 90, 180, 270}

LightElevations == {-90, 0, 90, 180}

UpdateLightSpaceMatrix ==
    /\ last.op = "new"
    /\ \E azimuth \in LightAzimuths, elevation \in LightElevations :
          LET lightDir == getLightDirection(azimuth, elevation)
          IN  last' = Call("updateLightSpaceMatrix", <<azimuth, elevation>>, chunk,
                           [lightDir         |-> lightDir,
                            lightView        |-> lightViewMatrix(lightDir),
                            math3dView       |-> math3dLookAt(
                                vec3Scale(lightDir, Num(-lightDistance)),
                                <<Num(0), Num(0), Num(0)>>,
                                <<Num(0), Num(1), Num(0)>>),
                            lightSpaceMatrix |-> updateLightSpaceMatrix(lightDir)])
    /\ UNCHANGED <<chunk, mesh, engine, nops>>
    /\ UNCHANGED <<gl, loop, meshes, editor>>

CalculateShadow ==
    /\ last.op = "new"
    /\ \E x \in ClipX, y \in ClipY, z \in ClipZ, w \in ClipW,
          vNormal \in FragmentNormals, uLightDir \in LightDirs, map \in ShadowMaps :
          last' = Call("calculateShadow", <<<<x, y, z, w>>, vNormal, uLightDir, map>>,
                       chunk, calculateShadow(<<x, y, z, w>>, vNormal, uLightDir, map))
    /\ UNCHANGED <<chunk, mesh, engine, nops>>
    /\ UNCHANGED <<gl, loop, meshes, editor>>

NextShader ==
    \/ CalculateShadow
    \/ UpdateLightSpaceMatrix

SpecShader == Init /\ [][NextShader]_vars

----------------------------------------------------------------------------
(* Claims about the shadow factor, checked under SpecShader *)

InUnit(a) == Leq(Num(0), a) /\ Leq(a, Num(1))

\* the samples of the 3x3 neighbourhood that are not behind the stored depth
LitSamples(projCoords, bias, map) ==
    {d \in (-1..1) \X (-1..1) :
        Leq(Sub(projCoords[3], bias),
            texture(map, pcfCoord(projCoords, map, d[1], d[2])))}

\* C18: calculateShadow returns 1 for a fragment whose remapped light-space
\* coordinate has a component (x, y or z) outside [0,1]; otherwise it returns
\* k/9, k being the number of the 9 samples with currentDepth - bias <= stored
\* depth; the factor is always in [0,1]
ShadowFactor ==
    last.op = "calculateShadow" =>
        LET projCoords == projCoordsOf(last.args[1])
            bias       == shadowBias(last.args[2], last.args[3])
            map        == last.args[4]
        IN  /\ Lt(Num(0), bias)
            /\ (\E k \in 1..3 : ~InUnit(projCoords[k])) => last.ret = Num(1)
            /\ (\A k \in 1..3 : InUnit(projCoords[k])) =>
                  last.ret = Make(Cardinality(LitSamples(projCoords, bias, map)), 9)
            /\ InUnit(last.ret)

\* a fragment inside the light's box with some samples lit and some shadowed
ShadowFactorWitness ==
    /\ last.op = "calculateShadow"
    /\ \A k \in 1..3 : InUnit(projCoordsOf(last.args[1])[k])
    /\ Lt(Num(0), last.ret)
    /\ Lt(last.ret, Num(1))

\* a fragment nearer to the light than its near plane: every sample is lit
ShadowBeforeNearPlane ==
    /\ last.op = "calculateShadow"
    /\ Lt(projCoordsOf(last.args[1])[3], Num(0))
    /\ InUnit(projCoordsOf(last.args[1])[1])
    /\ InUnit(projCoordsOf(last.args[1])[2])
    /\ last.ret = Num(1)

----------------------------------------------------------------------------
(* The render loop of an initialized engine: start, stop, the animation   *)
(* frames the browser runs, and window resizes                            *)

\* render callbacks requested and not yet run, at most
MaxPending == 3

FrameObjects ==
    {<<>>,
     <<[type |-> "tree_pine", position |-> <<Num(24), Num(1), Num(40)>>,
        rotation |-> Num(2), scale |-> Make(11, 10)]>>,
     <<[type |-> "tree_pine", position |-> <<Num(24), Num(1), Num(40)>>,
        rotation |-> Num(2), scale |-> Make(11, 10)],
       [type |-> "cactus", position |-> <<Num(0), Num(0), Num(64)>>,
        rotation |-> Num(0), scale |-> Num(1)],
       [type |-> "rock_large", position |-> <<Num(64), Num(3), Num(8)>>,
        rotation |-> Num(1), scale |-> Make(9, 10)]>>}

\* the meshes loaded: the generated ones, or fewer when models fail to load
MeshLibraries == {ObjectTypes, {"rock_large"}, {}}

InitFrame ==
    /\ \E objects \in FrameObjects :
          chunk = [createInitialTerrain(NewChunk(EngineSize, MaxResolution))
                      EXCEPT !.objects = objects, !.terrainDirty = FALSE]
    /\ mesh = generateMesh(chunk)
    /\ engine = "initialized"
    /\ last = Call("init", <<"none">>, chunk, initSteps("none"))
    /\ nops = 0
    /\ gl = NewGL(InitialWindow)
    /\ loop = NewLoop
    /\ meshes \in MeshLibraries
    /\ editor = NewEditorUI

LoopStart ==
    /\ loop.pending < MaxPending
    /\ loop' = start(loop)
    /\ engine' = "running"
    /\ last' = Call("start", <<>>, chunk, <<>>)
    /\ UNCHANGED <<chunk, mesh, nops, gl, meshes, editor>>

LoopStop ==
    /\ loop' = stop(loop)
    /\ engine' = "stopped"
    /\ last' = Call("stop", <<>>, chunk, <<>>)
    /\ UNCHANGED <<chunk, mesh, nops, gl, meshes, editor>>

\* the browser runs a requested callback: Engine.render
Frame ==
    /\ loop.pending > 0
    /\ mesh' = updateMesh(chunk, mesh)
    /\ chunk' = updateChunk(chunk)
    /\ gl' = sceneGL(gl)
    /\ loop' = frameCallback(loop)
    /\ last' = Call("frame", <<>>, chunk,
                    [steps |-> renderSteps(chunk, engineUi),
                     draws |-> sceneDraws(chunk', mesh', meshes, gl)])
    /\ UNCHANGED <<engine, nops, meshes, editor>>

Resize ==
    /\ \E window \in WindowSizes :
          /\ gl' = resize(gl, window)
          /\ last' = Call("resize", <<window>>, chunk, <<>>)
    /\ UNCHANGED <<chunk, mesh, engine, nops, loop, meshes, editor>>

NextFrame ==
    \/ LoopStart
    \/ LoopStop
    \/ Frame
    \/ Resize

SpecFrame == InitFrame /\ [][NextFrame]_vars

\* C24: with the light straight overhead (or at any other of the angles) the
\* light view matrix and the light-space matrix are built and every entry of
\* both is finite
LightSpaceFinite ==
    last.op = "updateLightSpaceMatrix" =>
        /\ Len(last.ret.lightSpaceMatrix) = 16
        /\ \A k \in 1..16 :
              /\ IsFinite(last.ret.lightView[k])
              /\ IsFinite(last.ret.math3dView[k])
              /\ IsFinite(last.ret.lightSpaceMatrix[k])

\* elevation 90: the view direction is parallel to the up vector and both the
\* right and the up axis of the view basis came out with zero length
LightSpaceFiniteWitness ==
    /\ last.op = "updateLightSpaceMatrix"
    /\ last.args[2] = 90
    /\ last.ret.lightDir = <<Num(0), Num(1), Num(0)>>
    /\ \A k \in {1, 5, 9, 2, 6, 10} : last.ret.lightView[k] = Num(0)
    /\ last.ret.lightView[7] = Num(-1)
    /\ last.ret.math3dView = last.ret.lightView

----------------------------------------------------------------------------
(* The editor at work: main.js has built the engine, the EditorUI and started
   the loops; mouse and keyboard events and the ticks of the update loop
   arrive in any order. *)

\* edits of the chunk (brush strokes and placements) in one run of the editor
MaxEdits == 1

\* last.ret is what placeObject returned in the step, or "none"
InitUI ==
    /\ chunk = [createInitialTerrain(NewChunk(EngineSize, MaxResolution))
                   EXCEPT !.terrainDirty = FALSE]
    /\ mesh = NoMesh
    /\ engine = "running"
    /\ last = Call("event", <<>>, <<>>, "none")
    /\ nops = 0
    /\ gl = NewGL(InitialWindow)
    /\ loop = start(NewLoop)
    /\ meshes = ObjectTypes
    /\ editor = NewEditorUI

\* Math.random() * Math.PI * 2
Rotations == {Num(3)}

\* 0.9 + Math.random() * 0.2
Scales == {Make(9, 10)}

\* engine.deltaTime, in seconds
DeltaTimes == {Make(2, 125)}

\* a button goes down over the canvas
MouseDown ==
    \E button \in Buttons \ editor.held, lower \in BOOLEAN,
       rotation \in Rotations, scale \in Scales :
        LET r == onMouseDown(editor, chunk, button, lower, rotation, scale)
        IN  /\ r.chunk # chunk => nops < MaxEdits
            /\ lower => button = 0 /\ editor.mode = "brush"
            /\ editor' = [r.ui EXCEPT !.held = @ \cup {button},
                                      !.paintPress = IF button = 0
                                                     THEN editor.mode = "brush" ELSE @]
            /\ chunk' = r.chunk
            /\ nops' = IF r.chunk # chunk THEN nops + 1 ELSE nops
            /\ last' = Call("event", <<>>, <<>>, r.placed)
            /\ UNCHANGED <<mesh, engine, gl, loop, meshes>>

\* a button that is down goes up
MouseUp ==
    \E button \in editor.held :
        /\ editor' = [onMouseUp(editor) EXCEPT !.held = @ \ {button},
                                               !.paintPress = IF button = 0
                                                              THEN FALSE ELSE @]
        /\ last' = Call("event", <<>>, <<>>, "none")
        /\ UNCHANGED <<chunk, mesh, engine, nops, gl, loop, meshes>>

MouseMove ==
    \E ray \in PointerRays :
        /\ ray # editor.pointer
        /\ editor' = onMouseMove(editor, chunk, ray)
        /\ last' = Call("event", <<>>, <<>>, "none")
        /\ UNCHANGED <<chunk, mesh, engine, nops, gl, loop, meshes>>

\* keys B and P, and the two mode buttons
KeyDown ==
    \E mode \in {"brush", "place"} :
        /\ editor' = setMode(editor, mode)
        /\ last' = Call("event", <<>>, <<>>, "none")
        /\ UNCHANGED <<chunk, mesh, engine, nops, gl, loop, meshes>>

\* one round of the update loop of main.js; the rounds that reach the brush
\* are counted
UpdateTick ==
    \E deltaTime \in DeltaTimes :
        /\ (editor.mouseDown /\ editor.mode = "brush") => nops < MaxEdits
        /\ chunk' = applyBrushAtMouse(editor, chunk, deltaTime)
        /\ nops' = IF editor.mouseDown /\ editor.mode = "brush" THEN nops + 1 ELSE nops
        /\ last' = Call("event", <<>>, <<>>, "none")
        /\ UNCHANGED <<mesh, engine, gl, loop, meshes, editor>>

NextUI ==
    \/ MouseDown
    \/ MouseUp
    \/ MouseMove
    \/ KeyDown
    \/ UpdateTick

SpecUI == InitUI /\ [][NextUI]_vars

----------------------------------------------------------------------------
(* Claims about the frame and the render loop, checked under SpecFrame *)

DrawsOf(call) == {call.ret.draws[i] : i \in 1..Len(call.ret.draws)}

\* C21: every draw of the depth pass runs with the shadow framebuffer bound,
\* the viewport of the shadow map's size, colour writes off and front faces
\* culled; every draw of the colour pass runs with the default framebuffer,
\* the viewport of the canvas size, colour writes on and back faces culled,
\* and that is the state every frame leaves
ShadowPassState ==
    /\ last.op = "frame" =>
          \A d \in DrawsOf(last) :
              IF d.pass = "depth"
              THEN /\ d.gl.framebuffer = "shadow"
                   /\ d.gl.viewport = <<shadowMapSize, shadowMapSize>>
                   /\ ~d.gl.colorMask
                   /\ d.gl.cullEnabled /\ d.gl.cullFace = "FRONT"
              ELSE /\ d.gl.framebuffer = "default"
                   /\ d.gl.viewport = gl.canvas
                   /\ d.gl.colorMask
                   /\ d.gl.cullEnabled /\ d.gl.cullFace = "BACK"
    /\ gl.framebuffer = "default"
    /\ gl.viewport = gl.canvas
    /\ gl.colorMask
    /\ gl.cullEnabled /\ gl.cullFace = "BACK"

\* a frame on a resized canvas that draws an object in both passes
ShadowPassStateWitness ==
    /\ last.op = "frame"
    /\ gl.canvas # InitialWindow
    /\ \E d \in DrawsOf(last) : d.pass = "depth" /\ d.obj > 0
    /\ \E d \in DrawsOf(last) : d.pass = "colour" /\ d.obj > 0

\* C22: at most one render callback is pending at any time
OneFramePending == loop.pending <= 1

DrawsIn(call, pass, obj) == {d \in DrawsOf(call) : d.pass = pass /\ d.obj = obj}

\* translate by position - (32, 0, 32), rotate about Y, scale uniformly
CentredTransform(obj) ==
    <<[op |-> "translate",
       by |-> <<Sub(obj.position[1], Num(32)), obj.position[2],
                Sub(obj.position[3], Num(32))>>],
      [op |-> "rotateY", by |-> obj.rotation],
      [op |-> "scale", by |-> <<obj.scale, obj.scale, obj.scale>>]>>

\* C28: in a frame an object of the chunk is drawn into the depth map exactly
\* when it is drawn in the colour pass, which is when its type has a mesh, and
\* with the same model matrix (translate by position - (32,0,32), rotate about
\* Y, scale); the terrain is translated by (-32,0,-32) in both passes
ShadowMatchesColour ==
    last.op = "frame" =>
        /\ \A i \in 1..Len(last.pre.objects) :
              LET obj == last.pre.objects[i]
              IN  /\ DrawsIn(last, "depth", i) # {} <=> DrawsIn(last, "colour", i) # {}
                  /\ DrawsIn(last, "depth", i) # {} <=> obj.type \in meshes
                  /\ \A d \in DrawsIn(last, "depth", i) \cup DrawsIn(last, "colour", i) :
                        d.model = CentredTransform(obj)
        /\ \A d \in DrawsOf(last) : d.pass # "grid" => d.obj \in 0..Len(last.pre.objects)
        /\ DrawsIn(last, "depth", 0) # {}
        /\ DrawsIn(last, "colour", 0) # {}
        /\ \A d \in DrawsIn(last, "depth", 0) \cup DrawsIn(last, "colour", 0) :
              d.model = <<[op |-> "translate", by |-> <<Num(-32), Num(0), Num(-32)>>]>>

\* a frame that skips an object without a mesh in both passes and draws
\* another in both
ShadowMatchesColourWitness ==
    /\ last.op = "frame"
    /\ \E i \in 1..Len(last.pre.objects) :
          /\ last.pre.objects[i].type \notin meshes
          /\ DrawsIn(last, "depth", i) = {}
          /\ DrawsIn(last, "colour", i) = {}
    /\ \E i \in 1..Len(last.pre.objects) :
          /\ DrawsIn(last, "depth", i) # {}
          /\ DrawsIn(last, "colour", i) # {}

----------------------------------------------------------------------------
(* Claims about object placement and the brush, checked under SpecQuery *)

\* C25: the object appended by Chunk.addObject keeps the given position[0] and
\* position[2], takes its height from getHeightAt on the heights at the moment
\* of the call whatever position[1] was, and the call leaves the heights, the
\* dirty flag and the earlier objects as they were
AddObjectSnaps ==
    last.op = "addObject" =>
        LET pre      == last.pre
            post     == last.ret
            position == last.args[2]
            added    == post.objects[Len(post.objects)]
        IN  /\ Len(post.objects) = Len(pre.objects) + 1
            /\ SubSeq(post.objects, 1, Len(pre.objects)) = pre.objects
            /\ added.type = last.args[1]
            /\ added.position[1] = position[1]
            /\ added.position[3] = position[3]
            /\ added.position[2] = getHeightAt(pre, position[1], position[3])
            /\ added.rotation = last.args[3]
            /\ added.scale = last.args[4]
            /\ post.heights = pre.heights
            /\ post.terrainDirty = pre.terrainDirty
            /\ post.size = pre.size
            /\ post.resolution = pre.resolution

\* an object placed off the grid points of an uneven field, with a given
\* height that is not the terrain's
AddObjectSnapsWitness ==
    /\ last.op = "addObject"
    /\ ~IsFlat(last.pre)
    /\ last.args[2][1] = Num(20)
    /\ last.args[2][2] # getHeightAt(last.pre, last.args[2][1], last.args[2][3])
    /\ last.ret.objects[Len(last.ret.objects)].position[2] # Num(0)

\* C30: raising with a brush of radius > 0 and then lowering with the same
\* arguments gives back every sample of the field, and two strokes leave the
\* same heights whichever is applied first
BrushInvertible ==
    last.op = "applyBrushPair" =>
        /\ last.ret.restored.heights = last.pre.heights
        /\ last.ret.ab.heights = last.ret.ba.heights

\* the raise changed a sample, and the two strokes differ and both reach a
\* sample that the other reaches too
BrushInvertibleWitness ==
    /\ last.op = "applyBrushPair"
    /\ last.ret.raised.heights # last.pre.heights
    /\ last.args[1] # last.args[2]
    /\ \E i \in 1..Len(last.pre.heights) :
          /\ stroke(last.pre, last.args[1]).heights[i] # last.pre.heights[i]
          /\ stroke(last.pre, last.args[2]).heights[i] # last.pre.heights[i]
          /\ last.ret.ab.heights[i] # stroke(last.pre, last.args[1]).heights[i]
    /\ ~IsFlat(last.pre)

\* C27: every index of the uploaded 16-bit index buffer is the vertex index
\* generateMesh computed and is below resolution * resolution
IndicesFit ==
    last.op = "uploadIndices" =>
        /\ last.ret.uploaded = last.ret.intended
        /\ \A j \in 1..Len(last.ret.uploaded) :
              last.ret.uploaded[j] < last.args[1] * last.args[1]

\* C23: on a field of finite samples no normal of the mesh has a component
\* that is not finite, and a triangle whose cross product has length zero
\* gets the zero vector
NormalsFinite ==
    /\ last.op = "faceNormals" =>
          \A t \in 1..Len(last.ret) : last.ret[t] # "nan"
    /\ last.op = "faceNormal" =>
          /\ last.ret.float # "nan"
          /\ last.ret.exact # NaNVector
          /\ last.ret.float = "zero" <=> last.ret.exact = Unit(0, 0, 0)

\* what the code keeps: the normals of a field scaled by at most 2^120 have
\* length 1, and a zero cross product is normalized to the zero vector
NormalsFiniteInRange ==
    /\ (last.op = "faceNormals" /\ last.args[1] <= 120) =>
          \A t \in 1..Len(last.ret) : last.ret[t] = "unit"
    /\ last.op = "faceNormal" =>
          /\ last.ret.float # "nan"
          /\ last.ret.float = "zero" <=> last.ret.exact = Unit(0, 0, 0)

NormalsFiniteInRangeWitness ==
    \/ last.op = "faceNormals" /\ last.args[1] = 120 /\ ~IsFlat(last.pre)
    \/ last.op = "faceNormal" /\ last.ret.float = "zero"

InBounds(c, position) ==
    /\ Leq(Num(0), position[1]) /\ Leq(position[1], Num(c.size))
    /\ Leq(Num(0), position[3]) /\ Leq(position[3], Num(c.size))

\* one placement: from the chunk before, at position, to the result
PlacedRight(before, position, visible, result) ==
    LET n == Len(before.objects)
    IN  /\ result.placed = "none" <=> ~visible
        /\ visible => (result.placed = "false" <=> ~InBounds(before, position))
        /\ result.placed # "true" => result.chunk = before
        /\ result.placed = "true" =>
              /\ Len(result.chunk.objects) = n + 1
              /\ SubSeq(result.chunk.objects, 1, n) = before.objects
              /\ result.chunk.objects[n + 1].position[1] = position[1]
              /\ result.chunk.objects[n + 1].position[3] = position[3]
              /\ result.chunk.heights = before.heights
              /\ result.chunk.size = before.size

\* C29: placeObject returns false and leaves the objects alone when worldX or
\* worldZ is outside [0, size], otherwise it returns true and appends one
\* object at that position; after the placements every object of the chunk
\* lies within [0, size]
PlacementInBounds ==
    last.op = "placeObjects" =>
        /\ PlacedRight(last.pre, last.args[1], last.args[2], last.ret[1])
        /\ PlacedRight(last.ret[1].chunk, last.args[3], TRUE, last.ret[2])
        /\ \A i \in 1..Len(last.ret[2].chunk.objects) :
              InBounds(last.ret[2].chunk, last.ret[2].chunk.objects[i].position)

\* a placement on the far edge of the chunk after one refused beyond it
PlacementInBoundsWitness ==
    /\ last.op = "placeObjects"
    /\ last.ret[1].placed = "false"
    /\ last.ret[2].placed = "true"
    /\ last.args[1][1] = Num(last.pre.size + 8)
    /\ last.args[3][3] = Num(last.pre.size)

----------------------------------------------------------------------------
(* Claims about the editor, checked under SpecUI *)

\* C26: a step changes the heights of the chunk only while a left button
\* press made in brush mode is still held, and once the left button is up
\* the brush is not active
BrushOnlyWhileHeld ==
    [][/\ chunk'.heights # chunk.heights => editor.paintPress
       /\ (0 \notin editor'.held) => ~editor'.terrainBrush.isActive]_vars

\* the same for the clicks of the editor: a left click in place mode with the
\* preview at a position outside
\* [0, size] returns false and leaves the objects as they were; inside it
\* returns true and appends one object at that position; so every object of
\* the chunk lies within [0, size]
ClickPlacesInBounds ==
    [][/\ last'.ret = "false" =>
              /\ chunk'.objects = chunk.objects
              /\ ~InBounds(chunk, editor.previewObject.position)
       /\ last'.ret = "true" =>
              /\ Len(chunk'.objects) = Len(chunk.objects) + 1
              /\ SubSeq(chunk'.objects, 1, Len(chunk.objects)) = chunk.objects
              /\ InBounds(chunk, editor.previewObject.position)
              /\ chunk'.objects[Len(chunk'.objects)].position[1] =
                     editor.previewObject.position[1]
              /\ chunk'.objects[Len(chunk'.objects)].position[3] =
                     editor.previewObject.position[3]
       /\ ~(last'.ret = "true") =>
              chunk'.objects = chunk.objects
       /\ \A i \in 1..Len(chunk'.objects) :
              InBounds(chunk', chunk'.objects[i].position)]_vars

====
